---------------------------- MODULE Spec2Model ----------------------------
(***************************************************************************)
(* Binary arithmetic / binary subtraction gates of plonky2 and their       *)
(* witness generators, over the Goldilocks field p = 2^64 - 2^32 + 1.      *)
(*                                                                         *)
(* TLC integers are 32 bits wide, so a u64 is a tuple of four 16-bit       *)
(* words, least significant first, and a field element is the u64 of its   *)
(* canonical representative.                                               *)
(***************************************************************************)
EXTENDS Integers, Sequences, FiniteSets, TLC

-----------------------------------------------------------------------------
(* u64 arithmetic on four 16-bit words *)

Word == 256 * 256
Byte == 16 * 16

\* the u64 of a small natural (n < 2^31)
U64(n) == <<n % Word, (n \div Word) % Word, 0, 0>>

Zero64 == <<0, 0, 0, 0>>
One64 == <<1, 0, 0, 0>>

\* a < b
Lt64(a, b) ==
    \/ a[4] < b[4]
    \/ /\ a[4] = b[4]
       /\ \/ a[3] < b[3]
          \/ /\ a[3] = b[3]
             /\ \/ a[2] < b[2]
                \/ a[2] = b[2] /\ a[1] < b[1]

\* a + b, five words (the fifth is the carry out of 64 bits)
Add64(a, b) ==
    LET s1 == a[1] + b[1]
        s2 == a[2] + b[2] + s1 \div Word
        s3 == a[3] + b[3] + s2 \div Word
        s4 == a[4] + b[4] + s3 \div Word
    IN  <<s1 % Word, s2 % Word, s3 % Word, s4 % Word, s4 \div Word>>

\* a - b modulo 2^64 (u64 wrapping_sub)
Sub64(a, b) ==
    LET d1 == a[1] - b[1]
        d2 == a[2] - b[2] + d1 \div Word
        d3 == a[3] - b[3] + d2 \div Word
        d4 == a[4] - b[4] + d3 \div Word
    IN  <<d1 % Word, d2 % Word, d3 % Word, d4 % Word>>

\* a * b as a 128-bit integer, eight words: columns of word * byte products
Mul64(a, b) ==
    LET y0 == b[1] % Byte
        y1 == b[1] \div Byte
        y2 == b[2] % Byte
        y3 == b[2] \div Byte
        y4 == b[3] % Byte
        y5 == b[3] \div Byte
        y6 == b[4] % Byte
        y7 == b[4] \div Byte
        t0 == a[1]*y0
        t1 == a[1]*y1 + t0 \div Byte
        t2 == a[1]*y2 + a[2]*y0 + t1 \div Byte
        t3 == a[1]*y3 + a[2]*y1 + t2 \div Byte
        t4 == a[1]*y4 + a[2]*y2 + a[3]*y0 + t3 \div Byte
        t5 == a[1]*y5 + a[2]*y3 + a[3]*y1 + t4 \div Byte
        t6 == a[1]*y6 + a[2]*y4 + a[3]*y2 + a[4]*y0 + t5 \div Byte
        t7 == a[1]*y7 + a[2]*y5 + a[3]*y3 + a[4]*y1 + t6 \div Byte
        t8 == a[2]*y6 + a[3]*y4 + a[4]*y2 + t7 \div Byte
        t9 == a[2]*y7 + a[3]*y5 + a[4]*y3 + t8 \div Byte
        t10 == a[3]*y6 + a[4]*y4 + t9 \div Byte
        t11 == a[3]*y7 + a[4]*y5 + t10 \div Byte
        t12 == a[4]*y6 + t11 \div Byte
        t13 == a[4]*y7 + t12 \div Byte
        t14 == t13 \div Byte
    IN  << (t0 % Byte) + Byte * (t1 % Byte),
           (t2 % Byte) + Byte * (t3 % Byte),
           (t4 % Byte) + Byte * (t5 % Byte),
           (t6 % Byte) + Byte * (t7 % Byte),
           (t8 % Byte) + Byte * (t9 % Byte),
           (t10 % Byte) + Byte * (t11 % Byte),
           (t12 % Byte) + Byte * (t13 % Byte),
           (t14 % Byte) + Byte * (t14 \div Byte) >>

\* 2^k as a small integer, k < 31
RECURSIVE Pow2(_)
Pow2(k) == IF k = 0 THEN 1 ELSE 2 * Pow2(k - 1)

\* word i (1-based) of a, zero past either end
WordAt(a, i) == IF i >= 1 /\ i <= 4 THEN a[i] ELSE 0

\* a >> k for k < 64
Shr64(a, k) ==
    LET q == k \div 16
        lo == Pow2(k % 16)
        hi == Pow2(16 - (k % 16))
        w(i) == WordAt(a, i + q) \div lo + (WordAt(a, i + q + 1) % lo) * hi
    IN  <<w(1), w(2), w(3), w(4)>>

\* a << k for k < 64, the bits shifted out of 64 dropped
Shl64(a, k) ==
    LET q == k \div 16
        lo == Pow2(k % 16)
        hi == Pow2(16 - (k % 16))
        w(i) == (WordAt(a, i - q) % hi) * lo + WordAt(a, i - q - 1) \div hi
    IN  <<w(1), w(2), w(3), w(4)>>

\* bitwise and of two 16-bit words
RECURSIVE AndWord(_, _)
AndWord(x, y) ==
    IF x = 0 \/ y = 0 THEN 0
    ELSE (x % 2) * (y % 2) + 2 * AndWord(x \div 2, y \div 2)

\* a & b
And64(a, b) ==
    << AndWord(a[1], b[1]), AndWord(a[2], b[2]),
       AndWord(a[3], b[3]), AndWord(a[4], b[4]) >>

\* a / d for a small divisor 0 < d <= 2^15 (schoolbook long division)
Div64(a, d) ==
    LET r4 == a[4] % d
        n3 == r4 * Word + a[3]
        r3 == n3 % d
        n2 == r3 * Word + a[2]
        r2 == n2 % d
        n1 == r2 * Word + a[1]
    IN  <<n1 \div d, n2 \div d, n3 \div d, a[4] \div d>>

\* a % d for a small divisor 0 < d <= 2^15
Mod64(a, d) ==
    LET r4 == a[4] % d
        r3 == (r4 * Word + a[3]) % d
        r2 == (r3 * Word + a[2]) % d
    IN  U64((r2 * Word + a[1]) % d)

-----------------------------------------------------------------------------
(* The Goldilocks field: elements are canonical u64 representatives *)

\* ORDER = 2^64 - 2^32 + 1 = 0xFFFFFFFF00000001
ORDER == <<1, 0, Word - 1, Word - 1>>

\* the low four words of a longer tuple
Low64(x) == <<x[1], x[2], x[3], x[4]>>

\* from_canonical_u64 / from_canonical_usize: n is already below ORDER
from_canonical_u64(n) == n

\* to_canonical_u64: the canonical representative
to_canonical_u64(x) == IF Lt64(x, ORDER) THEN x ELSE Sub64(x, ORDER)

FZero == Zero64
FOne == One64

FAdd(a, b) ==
    IF b = FZero THEN a
    ELSE IF a = FZero THEN b
    ELSE LET s == Add64(a, b)
         IN  IF s[5] = 1 \/ ~Lt64(Low64(s), ORDER)
             THEN Sub64(Low64(s), ORDER)
             ELSE Low64(s)

FSub(a, b) ==
    IF b = FZero THEN a
    ELSE IF Lt64(a, b) THEN Sub64(ORDER, Sub64(b, a))
    ELSE Sub64(a, b)

\* x mod ORDER for a 128-bit x: 2^64 = 2^32 - 1 and 2^96 = -1 modulo ORDER
Reduce128(x) ==
    LET lo == to_canonical_u64(Low64(x))
        mid == Sub64(<<0, 0, x[5], x[6]>>, <<x[5], x[6], 0, 0>>)
    IN  FSub(FAdd(lo, mid), <<x[7], x[8], 0, 0>>)

FMul(a, b) ==
    IF a = FZero \/ b = FZero THEN FZero
    ELSE IF a = FOne THEN b
    ELSE IF b = FOne THEN a
    ELSE Reduce128(Mul64(a, b))

-----------------------------------------------------------------------------
(* Gate layout.  A gate is [kind, BITS, num_ops, debug_assertions]: the     *)
(* gate struct at its const parameter BITS, and whether the build it is    *)
(* compiled in has debug assertions on (they are on in the dev and test    *)
(* profiles and off in the release profile).  A CircuitConfig is           *)
(* [num_wires, num_routed_wires].                                          *)

\* the value an index accessor yields when its debug_assert! fails
PANIC == 0 - 1

Min(a, b) == IF a < b THEN a ELSE b

(* BinaryArithmeticGate *)

Arith_limb_bits == 2

Arith_num_limbs(BITS) == (2 * BITS) \div Arith_limb_bits

\* a faulty num_ops: the routed-wire budget is ignored
Arith_num_ops_unrouted(BITS, config) ==
    config.num_wires \div (5 + Arith_num_limbs(BITS))

Arith_num_ops(BITS, config) ==
    LET wires_per_op == 5 + Arith_num_limbs(BITS)
        routed_wires_per_op == 5
    IN  Min(config.num_wires \div wires_per_op,
            config.num_routed_wires \div routed_wires_per_op)

Arith_new_from_config(BITS, config, debug_assertions) ==
    [kind |-> "arithmetic", BITS |-> BITS, num_ops |-> Arith_num_ops(BITS, config),
     debug_assertions |-> debug_assertions]

Arith_wire_ith_multiplicand_0(gate, i) ==
    IF gate.debug_assertions /\ ~(i < gate.num_ops) THEN PANIC ELSE 5 * i

Arith_wire_ith_multiplicand_1(gate, i) ==
    IF gate.debug_assertions /\ ~(i < gate.num_ops) THEN PANIC ELSE 5 * i + 1

Arith_wire_ith_addend(gate, i) ==
    IF gate.debug_assertions /\ ~(i < gate.num_ops) THEN PANIC ELSE 5 * i + 2

Arith_wire_ith_output_low_half(gate, i) ==
    IF gate.debug_assertions /\ ~(i < gate.num_ops) THEN PANIC ELSE 5 * i + 3

Arith_wire_ith_output_high_half(gate, i) ==
    IF gate.debug_assertions /\ ~(i < gate.num_ops) THEN PANIC ELSE 5 * i + 4

\* a faulty wire_ith_output_jth_limb: the limbs of every op start at the same
\* column
Arith_wire_ith_output_jth_limb_unstrided(gate, i, j) ==
    IF gate.debug_assertions /\ ~(i < gate.num_ops /\ j < Arith_num_limbs(gate.BITS))
    THEN PANIC
    ELSE 5 * gate.num_ops + j

Arith_wire_ith_output_jth_limb(gate, i, j) ==
    IF gate.debug_assertions /\ ~(i < gate.num_ops /\ j < Arith_num_limbs(gate.BITS))
    THEN PANIC
    ELSE 5 * gate.num_ops + Arith_num_limbs(gate.BITS) * i + j

Arith_num_wires(gate) == gate.num_ops * (5 + Arith_num_limbs(gate.BITS))

Arith_num_constants(gate) == 0

\* a faulty degree: limb_bits instead of 1 << limb_bits
Arith_degree_limb_bits(gate) == Arith_limb_bits

Arith_degree(gate) == Pow2(Arith_limb_bits)

Arith_num_constraints(gate) == gate.num_ops * (3 + Arith_num_limbs(gate.BITS))

(* BinarySubtractionGate *)

Sub_limb_bits == 2

Sub_num_limbs(BITS) == BITS \div Sub_limb_bits

Sub_num_ops(BITS, config) ==
    LET wires_per_op == 5 + Sub_num_limbs(BITS)
        routed_wires_per_op == 5
    IN  Min(config.num_wires \div wires_per_op,
            config.num_routed_wires \div routed_wires_per_op)

Sub_new_from_config(BITS, config, debug_assertions) ==
    [kind |-> "subtraction", BITS |-> BITS, num_ops |-> Sub_num_ops(BITS, config),
     debug_assertions |-> debug_assertions]

Sub_wire_ith_input_x(gate, i) ==
    IF gate.debug_assertions /\ ~(i < gate.num_ops) THEN PANIC ELSE 5 * i

Sub_wire_ith_input_y(gate, i) ==
    IF gate.debug_assertions /\ ~(i < gate.num_ops) THEN PANIC ELSE 5 * i + 1

Sub_wire_ith_input_borrow(gate, i) ==
    IF gate.debug_assertions /\ ~(i < gate.num_ops) THEN PANIC ELSE 5 * i + 2

\* a faulty wire_ith_output_result: the first input wire of the next op
Sub_wire_ith_output_result_on_next_op(gate, i) ==
    IF gate.debug_assertions /\ ~(i < gate.num_ops) THEN PANIC ELSE 5 * i + 5

Sub_wire_ith_output_result(gate, i) ==
    IF gate.debug_assertions /\ ~(i < gate.num_ops) THEN PANIC ELSE 5 * i + 3

\* a faulty wire_ith_output_borrow: the assertion admits i = num_ops
Sub_wire_ith_output_borrow_inclusive(gate, i) ==
    IF gate.debug_assertions /\ ~(i <= gate.num_ops) THEN PANIC ELSE 5 * i + 4

Sub_wire_ith_output_borrow(gate, i) ==
    IF gate.debug_assertions /\ ~(i < gate.num_ops) THEN PANIC ELSE 5 * i + 4

\* a faulty wire_ith_output_jth_limb: the limbs start at column num_ops
Sub_wire_ith_output_jth_limb_from_num_ops(gate, i, j) ==
    IF gate.debug_assertions /\ ~(i < gate.num_ops /\ j < Sub_num_limbs(gate.BITS))
    THEN PANIC
    ELSE gate.num_ops + Sub_num_limbs(gate.BITS) * i + j

Sub_wire_ith_output_jth_limb(gate, i, j) ==
    IF gate.debug_assertions /\ ~(i < gate.num_ops /\ j < Sub_num_limbs(gate.BITS))
    THEN PANIC
    ELSE 5 * gate.num_ops + Sub_num_limbs(gate.BITS) * i + j

Sub_num_wires(gate) == gate.num_ops * (5 + Sub_num_limbs(gate.BITS))

Sub_num_constants(gate) == 0

Sub_degree(gate) == Pow2(Sub_limb_bits)

\* a faulty num_constraints: the borrow booleanity constraint is not counted
Sub_num_constraints_less_one(gate) == gate.num_ops * (Sub_num_limbs(gate.BITS) + 2)

Sub_num_constraints(gate) == gate.num_ops * (Sub_num_limbs(gate.BITS) + 3)

(* Gate trait dispatch *)

limb_bits(gate) ==
    IF gate.kind = "arithmetic" THEN Arith_limb_bits ELSE Sub_limb_bits

num_limbs(gate) ==
    IF gate.kind = "arithmetic" THEN Arith_num_limbs(gate.BITS)
    ELSE Sub_num_limbs(gate.BITS)

num_wires(gate) ==
    IF gate.kind = "arithmetic" THEN Arith_num_wires(gate)
    ELSE Sub_num_wires(gate)

num_constants(gate) ==
    IF gate.kind = "arithmetic" THEN Arith_num_constants(gate)
    ELSE Sub_num_constants(gate)

degree(gate) ==
    IF gate.kind = "arithmetic" THEN Arith_degree(gate) ELSE Sub_degree(gate)

num_constraints(gate) ==
    IF gate.kind = "arithmetic" THEN Arith_num_constraints(gate)
    ELSE Sub_num_constraints(gate)

-----------------------------------------------------------------------------
(* Witness generators.  An out_buffer is the sequence of <<wire, value>>    *)
(* pairs pushed by set_wire, in order.                                     *)

\* a wire no generator has written and no input was assigned to
Unset == <<>>

\* witness.get_wire
get_wire(witness, input) ==
    IF input \in DOMAIN witness THEN witness[input] ELSE Unset

\* a faulty output_limbs: the accumulator is never divided
output_limbs_undivided(acc, limb_base, n) ==
    [j \in 1..n |-> from_canonical_u64(Mod64(acc, limb_base))]

\* the first n little-endian base-limb_base digits of acc
\* (unfold(..).take(num_limbs) / (0..num_limbs).scan(..))
RECURSIVE output_limbs(_, _, _)
output_limbs(acc, limb_base, n) ==
    IF n = 0 THEN <<>>
    ELSE <<from_canonical_u64(Mod64(acc, limb_base))>>
             \o output_limbs(Div64(acc, limb_base), limb_base, n - 1)

\* a faulty output_high_u64: shifts by the limb width instead of BITS
Arith_output_high_u64_by_limb_bits(BITS, output_u64) ==
    Shr64(output_u64, Arith_limb_bits)

\* output_u64 >> BITS
Arith_output_high_u64(BITS, output_u64) == Shr64(output_u64, BITS)

\* a faulty output_low_u64: the mask is left out
Arith_output_low_u64_unmasked(BITS, output_u64) == output_u64

\* output_u64 & ((1 << BITS) - 1)
Arith_output_low_u64(BITS, output_u64) ==
    And64(output_u64, Sub64(Shl64(One64, BITS), One64))

\* BinaryArithmeticGenerator::run_once
Arith_run_once(gate, i, witness) ==
    LET multiplicand_0 == get_wire(witness, Arith_wire_ith_multiplicand_0(gate, i))
        multiplicand_1 == get_wire(witness, Arith_wire_ith_multiplicand_1(gate, i))
        addend == get_wire(witness, Arith_wire_ith_addend(gate, i))
        output == FAdd(FMul(multiplicand_0, multiplicand_1), addend)
        output_u64 == to_canonical_u64(output)
        output_high_u64 == Arith_output_high_u64(gate.BITS, output_u64)
        output_low_u64 == Arith_output_low_u64(gate.BITS, output_u64)
        output_high == from_canonical_u64(output_high_u64)
        output_low == from_canonical_u64(output_low_u64)
        limb_base == Pow2(Arith_limb_bits)
        limbs == output_limbs(output_u64, limb_base, Arith_num_limbs(gate.BITS))
    IN  << <<Arith_wire_ith_output_high_half(gate, i), output_high>>,
           <<Arith_wire_ith_output_low_half(gate, i), output_low>> >>
        \o [j \in 1..Len(limbs) |->
               <<Arith_wire_ith_output_jth_limb(gate, i, j - 1), limbs[j]>>]

\* a faulty output_borrow: the comparison is the wrong way round
Sub_output_borrow_inverted(BITS, result_initial_u64) ==
    IF Lt64(result_initial_u64, Shl64(One64, BITS)) THEN FOne ELSE FZero

\* if result_initial_u64 > 1u64 << BITS { F::ONE } else { F::ZERO }
Sub_output_borrow(BITS, result_initial_u64) ==
    IF Lt64(Shl64(One64, BITS), result_initial_u64) THEN FOne ELSE FZero

\* a faulty result_initial: the borrow is added
Sub_result_initial_adding_borrow(input_x, input_y, input_borrow) ==
    FAdd(FSub(input_x, input_y), input_borrow)

\* let result_initial = input_x - input_y - input_borrow
Sub_result_initial(input_x, input_y, input_borrow) ==
    FSub(FSub(input_x, input_y), input_borrow)

\* BinarySubtractionGenerator::run_once
Sub_run_once(gate, i, witness) ==
    LET input_x == get_wire(witness, Sub_wire_ith_input_x(gate, i))
        input_y == get_wire(witness, Sub_wire_ith_input_y(gate, i))
        input_borrow == get_wire(witness, Sub_wire_ith_input_borrow(gate, i))
        result_initial == Sub_result_initial(input_x, input_y, input_borrow)
        result_initial_u64 == to_canonical_u64(result_initial)
        output_borrow == Sub_output_borrow(gate.BITS, result_initial_u64)
        base == from_canonical_u64(Shl64(One64, gate.BITS))
        output_result == FAdd(result_initial, FMul(base, output_borrow))
        output_result_u64 == to_canonical_u64(output_result)
        limb_base == Pow2(Sub_limb_bits)
        limbs == output_limbs(output_result_u64, limb_base, Sub_num_limbs(gate.BITS))
    IN  << <<Sub_wire_ith_output_result(gate, i), output_result>>,
           <<Sub_wire_ith_output_borrow(gate, i), output_borrow>> >>
        \o [j \in 1..Len(limbs) |->
               <<Sub_wire_ith_output_jth_limb(gate, i, j - 1), limbs[j]>>]

run_once(gate, i, witness) ==
    IF gate.kind = "arithmetic" THEN Arith_run_once(gate, i, witness)
    ELSE Sub_run_once(gate, i, witness)

\* SimpleGenerator::dependencies
Arith_dependencies(gate, i) ==
    << Arith_wire_ith_multiplicand_0(gate, i),
       Arith_wire_ith_multiplicand_1(gate, i),
       Arith_wire_ith_addend(gate, i) >>

Sub_dependencies(gate, i) ==
    << Sub_wire_ith_input_x(gate, i),
       Sub_wire_ith_input_y(gate, i),
       Sub_wire_ith_input_borrow(gate, i) >>

dependencies(gate, i) ==
    IF gate.kind = "arithmetic" THEN Arith_dependencies(gate, i)
    ELSE Sub_dependencies(gate, i)

-----------------------------------------------------------------------------
(* The quartic extension field F[X]/(X^4 - EXT_W) (QuarticExtension, D = 4): *)
(* an element is the tuple of its four base-field coefficients, constant    *)
(* term first.                                                              *)

\* the non-residue W of the Goldilocks extensions
EXT_W == U64(7)

EZero == <<FZero, FZero, FZero, FZero>>

\* the embedding of a base-field element (From<F> for F::Extension)
EFromBase(x) == <<x, FZero, FZero, FZero>>

EOne == EFromBase(FOne)

EAdd(a, b) ==
    <<FAdd(a[1], b[1]), FAdd(a[2], b[2]), FAdd(a[3], b[3]), FAdd(a[4], b[4])>>

ESub(a, b) ==
    <<FSub(a[1], b[1]), FSub(a[2], b[2]), FSub(a[3], b[3]), FSub(a[4], b[4])>>

\* whether a lies in the embedded base field
EIsBase(a) == a[2] = FZero /\ a[3] = FZero /\ a[4] = FZero

\* the coefficients k.. of a scaled by the base-field element c
RECURSIVE EScaleFrom(_, _, _)
EScaleFrom(a, c, k) ==
    IF k > Len(a) THEN <<>>
    ELSE <<FMul(a[k], c)>> \o EScaleFrom(a, c, k + 1)

\* the sum over i >= i0 of the terms a_i * b_j X^(i+j) that land on X^k,
\* with X^4 folded to EXT_W (coefficients counted from 0)
RECURSIVE Conv(_, _, _, _)
Conv(a, b, k, i0) ==
    IF i0 >= Len(a) THEN FZero
    ELSE LET j == (k + Len(a) - i0) % Len(a)
             term == FMul(IF i0 + j >= Len(a) THEN EXT_W ELSE FOne,
                          FMul(a[i0 + 1], b[j + 1]))
         IN  FAdd(term, Conv(a, b, k, i0 + 1))

\* the coefficients k.. of the product a * b
RECURSIVE EMulFrom(_, _, _)
EMulFrom(a, b, k) ==
    IF k >= Len(a) THEN <<>>
    ELSE <<Conv(a, b, k, 0)>> \o EMulFrom(a, b, k + 1)

EMul(a, b) ==
    IF EIsBase(b) THEN EScaleFrom(a, b[1], 1)
    ELSE IF EIsBase(a) THEN EScaleFrom(b, a[1], 1)
    ELSE EMulFrom(a, b, 0)

\* F::from_canonical_usize of a small index
from_canonical_usize(n) == U64(n)

-----------------------------------------------------------------------------
(* eval_unfiltered_base: constraints over the base field *)

\* a faulty limb product: the range is 1..=max_limb
RECURSIVE limb_product_base_from_one(_, _)
limb_product_base_from_one(this_limb, max_limb) ==
    IF max_limb = 0 THEN FOne
    ELSE FMul(limb_product_base_from_one(this_limb, max_limb - 1),
              FSub(this_limb, from_canonical_usize(max_limb)))

\* (0..max_limb).map(|x| this_limb - F::from_canonical_usize(x)).product()
RECURSIVE limb_product_base(_, _)
limb_product_base(this_limb, max_limb) ==
    IF max_limb = 0 THEN FOne
    ELSE FMul(limb_product_base(this_limb, max_limb - 1),
              FSub(this_limb, from_canonical_usize(max_limb - 1)))

\* for j in (0..num_limbs).rev(), entered at limb j with the loop state st
RECURSIVE Arith_limb_loop_base(_, _, _, _, _)
Arith_limb_loop_base(gate, local_wires, i, j, st) ==
    IF j < 0 THEN st
    ELSE
      LET this_limb == local_wires[Arith_wire_ith_output_jth_limb(gate, i, j)]
          max_limb == Pow2(Arith_limb_bits)
          product == limb_product_base(this_limb, max_limb)
          midpoint == Arith_num_limbs(gate.BITS) \div 2
          base == from_canonical_u64(Shl64(One64, Arith_limb_bits))
      IN  Arith_limb_loop_base(gate, local_wires, i, j - 1,
            [constraints |-> Append(st.constraints, product),
             combined_low_limbs |->
                IF j < midpoint
                THEN FAdd(FMul(base, st.combined_low_limbs), this_limb)
                ELSE st.combined_low_limbs,
             combined_high_limbs |->
                IF j < midpoint
                THEN st.combined_high_limbs
                ELSE FAdd(FMul(base, st.combined_high_limbs), this_limb)])

\* the constraints one op pushes
Arith_op_base(gate, local_wires, i) ==
    LET multiplicand_0 == local_wires[Arith_wire_ith_multiplicand_0(gate, i)]
        multiplicand_1 == local_wires[Arith_wire_ith_multiplicand_1(gate, i)]
        addend == local_wires[Arith_wire_ith_addend(gate, i)]
        computed_output == FAdd(FMul(multiplicand_0, multiplicand_1), addend)
        output_low == local_wires[Arith_wire_ith_output_low_half(gate, i)]
        output_high == local_wires[Arith_wire_ith_output_high_half(gate, i)]
        base == from_canonical_u64(Shl64(One64, gate.BITS))
        combined_output == FAdd(FMul(output_high, base), output_low)
        st == Arith_limb_loop_base(gate, local_wires, i,
                Arith_num_limbs(gate.BITS) - 1,
                [constraints |-> <<FSub(combined_output, computed_output)>>,
                 combined_low_limbs |-> FZero,
                 combined_high_limbs |-> FZero])
    IN  st.constraints
          \o << FSub(st.combined_low_limbs, output_low),
                FSub(st.combined_high_limbs, output_high) >>

\* for i in 0..num_ops, entered at op i
RECURSIVE Arith_ops_base(_, _, _)
Arith_ops_base(gate, local_wires, i) ==
    IF i >= gate.num_ops THEN <<>>
    ELSE Arith_op_base(gate, local_wires, i)
           \o Arith_ops_base(gate, local_wires, i + 1)

Arith_eval_unfiltered_base(gate, local_wires) ==
    Arith_ops_base(gate, local_wires, 0)

RECURSIVE Sub_limb_loop_base(_, _, _, _, _)
Sub_limb_loop_base(gate, local_wires, i, j, st) ==
    IF j < 0 THEN st
    ELSE
      LET this_limb == local_wires[Sub_wire_ith_output_jth_limb(gate, i, j)]
          max_limb == Pow2(Sub_limb_bits)
          product == limb_product_base(this_limb, max_limb)
          limb_base == from_canonical_u64(Shl64(One64, Sub_limb_bits))
      IN  Sub_limb_loop_base(gate, local_wires, i, j - 1,
            [constraints |-> Append(st.constraints, product),
             combined_limbs |->
                FAdd(FMul(limb_base, st.combined_limbs), this_limb)])

Sub_op_base(gate, local_wires, i) ==
    LET input_x == local_wires[Sub_wire_ith_input_x(gate, i)]
        input_y == local_wires[Sub_wire_ith_input_y(gate, i)]
        input_borrow == local_wires[Sub_wire_ith_input_borrow(gate, i)]
        result_initial == FSub(FSub(input_x, input_y), input_borrow)
        base == from_canonical_u64(Shl64(One64, gate.BITS))
        output_result == local_wires[Sub_wire_ith_output_result(gate, i)]
        output_borrow == local_wires[Sub_wire_ith_output_borrow(gate, i)]
        st == Sub_limb_loop_base(gate, local_wires, i,
                Sub_num_limbs(gate.BITS) - 1,
                [constraints |->
                    <<FSub(output_result,
                           FAdd(result_initial, FMul(base, output_borrow)))>>,
                 combined_limbs |-> FZero])
    IN  st.constraints
          \o << FSub(st.combined_limbs, output_result),
                FMul(output_borrow, FSub(FOne, output_borrow)) >>

RECURSIVE Sub_ops_base(_, _, _)
Sub_ops_base(gate, local_wires, i) ==
    IF i >= gate.num_ops THEN <<>>
    ELSE Sub_op_base(gate, local_wires, i)
           \o Sub_ops_base(gate, local_wires, i + 1)

Sub_eval_unfiltered_base(gate, local_wires) ==
    Sub_ops_base(gate, local_wires, 0)

eval_unfiltered_base(gate, local_wires) ==
    IF gate.kind = "arithmetic" THEN Arith_eval_unfiltered_base(gate, local_wires)
    ELSE Sub_eval_unfiltered_base(gate, local_wires)

-----------------------------------------------------------------------------
(* eval_unfiltered: constraints over the extension field *)

\* F::Extension::from_canonical_u64 / from_canonical_usize
E_from_canonical_u64(n) == EFromBase(from_canonical_u64(n))

E_from_canonical_usize(n) == EFromBase(from_canonical_usize(n))

\* a faulty limb product: the range is 1..=max_limb
RECURSIVE limb_product_from_one(_, _)
limb_product_from_one(this_limb, max_limb) ==
    IF max_limb = 0 THEN EOne
    ELSE EMul(limb_product_from_one(this_limb, max_limb - 1),
              ESub(this_limb, E_from_canonical_usize(max_limb)))

\* (0..max_limb).map(|x| this_limb - F::Extension::from_canonical_usize(x)).product()
RECURSIVE limb_product(_, _)
limb_product(this_limb, max_limb) ==
    IF max_limb = 0 THEN EOne
    ELSE EMul(limb_product(this_limb, max_limb - 1),
              ESub(this_limb, E_from_canonical_usize(max_limb - 1)))

RECURSIVE Arith_limb_loop(_, _, _, _, _)
Arith_limb_loop(gate, local_wires, i, j, st) ==
    IF j < 0 THEN st
    ELSE
      LET this_limb == local_wires[Arith_wire_ith_output_jth_limb(gate, i, j)]
          max_limb == Pow2(Arith_limb_bits)
          product == limb_product(this_limb, max_limb)
          midpoint == Arith_num_limbs(gate.BITS) \div 2
          base == E_from_canonical_u64(Shl64(One64, Arith_limb_bits))
      IN  Arith_limb_loop(gate, local_wires, i, j - 1,
            [constraints |-> Append(st.constraints, product),
             combined_low_limbs |->
                IF j < midpoint
                THEN EAdd(EMul(base, st.combined_low_limbs), this_limb)
                ELSE st.combined_low_limbs,
             combined_high_limbs |->
                IF j < midpoint
                THEN st.combined_high_limbs
                ELSE EAdd(EMul(base, st.combined_high_limbs), this_limb)])

Arith_op(gate, local_wires, i) ==
    LET multiplicand_0 == local_wires[Arith_wire_ith_multiplicand_0(gate, i)]
        multiplicand_1 == local_wires[Arith_wire_ith_multiplicand_1(gate, i)]
        addend == local_wires[Arith_wire_ith_addend(gate, i)]
        computed_output == EAdd(EMul(multiplicand_0, multiplicand_1), addend)
        output_low == local_wires[Arith_wire_ith_output_low_half(gate, i)]
        output_high == local_wires[Arith_wire_ith_output_high_half(gate, i)]
        base == E_from_canonical_u64(Shl64(One64, gate.BITS))
        combined_output == EAdd(EMul(output_high, base), output_low)
        st == Arith_limb_loop(gate, local_wires, i,
                Arith_num_limbs(gate.BITS) - 1,
                [constraints |-> <<ESub(combined_output, computed_output)>>,
                 combined_low_limbs |-> EZero,
                 combined_high_limbs |-> EZero])
    IN  st.constraints
          \o << ESub(st.combined_low_limbs, output_low),
                ESub(st.combined_high_limbs, output_high) >>

RECURSIVE Arith_ops(_, _, _)
Arith_ops(gate, local_wires, i) ==
    IF i >= gate.num_ops THEN <<>>
    ELSE Arith_op(gate, local_wires, i) \o Arith_ops(gate, local_wires, i + 1)

Arith_eval_unfiltered(gate, local_wires) == Arith_ops(gate, local_wires, 0)

RECURSIVE Sub_limb_loop(_, _, _, _, _)
Sub_limb_loop(gate, local_wires, i, j, st) ==
    IF j < 0 THEN st
    ELSE
      LET this_limb == local_wires[Sub_wire_ith_output_jth_limb(gate, i, j)]
          max_limb == Pow2(Sub_limb_bits)
          product == limb_product(this_limb, max_limb)
          limb_base == E_from_canonical_u64(Shl64(One64, Sub_limb_bits))
      IN  Sub_limb_loop(gate, local_wires, i, j - 1,
            [constraints |-> Append(st.constraints, product),
             combined_limbs |->
                EAdd(EMul(limb_base, st.combined_limbs), this_limb)])

Sub_op(gate, local_wires, i) ==
    LET input_x == local_wires[Sub_wire_ith_input_x(gate, i)]
        input_y == local_wires[Sub_wire_ith_input_y(gate, i)]
        input_borrow == local_wires[Sub_wire_ith_input_borrow(gate, i)]
        result_initial == ESub(ESub(input_x, input_y), input_borrow)
        base == E_from_canonical_u64(Shl64(One64, gate.BITS))
        output_result == local_wires[Sub_wire_ith_output_result(gate, i)]
        output_borrow == local_wires[Sub_wire_ith_output_borrow(gate, i)]
        st == Sub_limb_loop(gate, local_wires, i,
                Sub_num_limbs(gate.BITS) - 1,
                [constraints |->
                    <<ESub(output_result,
                           EAdd(result_initial, EMul(base, output_borrow)))>>,
                 combined_limbs |-> EZero])
    IN  st.constraints
          \o << ESub(st.combined_limbs, output_result),
                EMul(output_borrow, ESub(EOne, output_borrow)) >>

RECURSIVE Sub_ops(_, _, _)
Sub_ops(gate, local_wires, i) ==
    IF i >= gate.num_ops THEN <<>>
    ELSE Sub_op(gate, local_wires, i) \o Sub_ops(gate, local_wires, i + 1)

Sub_eval_unfiltered(gate, local_wires) == Sub_ops(gate, local_wires, 0)

eval_unfiltered(gate, local_wires) ==
    IF gate.kind = "arithmetic" THEN Arith_eval_unfiltered(gate, local_wires)
    ELSE Sub_eval_unfiltered(gate, local_wires)

-----------------------------------------------------------------------------
(* eval_unfiltered_recursively: the constraints as targets of a recursion   *)
(* circuit.  A target is the expression the builder recorded for it.       *)

\* vars.local_wires[k] of EvaluationTargets
wire_target(k) == [op |-> "wire", k |-> k]

\* builder.constant_extension(c)
constant_extension(c) == [op |-> "const", c |-> c]

\* builder.zero_extension()
zero_extension == constant_extension(EZero)

\* builder.one_extension()
one_extension == constant_extension(EOne)

\* builder.sub_extension(a, b) = a - b
sub_extension(a, b) == [op |-> "sub", a |-> a, b |-> b]

\* builder.mul_extension(a, b) = a * b
mul_extension(a, b) == [op |-> "mul", a |-> a, b |-> b]

\* builder.mul_add_extension(a, b, c) = a * b + c
mul_add_extension(a, b, c) == [op |-> "mul_add", a |-> a, b |-> b, c |-> c]

\* the value a target takes when the wire targets take the values local_wires
RECURSIVE target_value(_, _)
target_value(t, local_wires) ==
    CASE t.op = "wire" -> local_wires[t.k]
      [] t.op = "const" -> t.c
      [] t.op = "sub" ->
            ESub(target_value(t.a, local_wires), target_value(t.b, local_wires))
      [] t.op = "mul" ->
            EMul(target_value(t.a, local_wires), target_value(t.b, local_wires))
      [] t.op = "mul_add" ->
            EAdd(EMul(target_value(t.a, local_wires), target_value(t.b, local_wires)),
                 target_value(t.c, local_wires))

Max(a, b) == IF a < b THEN b ELSE a

\* the total degree of a target's expression in the wire targets
RECURSIVE target_degree(_)
target_degree(t) ==
    CASE t.op = "wire" -> 1
      [] t.op = "const" -> 0
      [] t.op = "sub" -> Max(target_degree(t.a), target_degree(t.b))
      [] t.op = "mul" -> target_degree(t.a) + target_degree(t.b)
      [] t.op = "mul_add" ->
            Max(target_degree(t.a) + target_degree(t.b), target_degree(t.c))

\* a faulty limb product: the loop body runs once
limb_product_recursively_once(this_limb, x, max_limb, product) ==
    mul_extension(product,
        sub_extension(this_limb, constant_extension(E_from_canonical_usize(x))))

\* for x in 0..max_limb { product = product * (this_limb - x) }, entered at x
RECURSIVE limb_product_recursively(_, _, _, _)
limb_product_recursively(this_limb, x, max_limb, product) ==
    IF x >= max_limb THEN product
    ELSE LET x_target == constant_extension(E_from_canonical_usize(x))
             diff == sub_extension(this_limb, x_target)
         IN  limb_product_recursively(this_limb, x + 1, max_limb,
                                      mul_extension(product, diff))

RECURSIVE Arith_limb_loop_recursively(_, _, _, _, _)
Arith_limb_loop_recursively(gate, local_wires, i, j, st) ==
    IF j < 0 THEN st
    ELSE
      LET this_limb == local_wires[Arith_wire_ith_output_jth_limb(gate, i, j)]
          max_limb == Pow2(Arith_limb_bits)
          product == limb_product_recursively(this_limb, 0, max_limb, one_extension)
          midpoint == Arith_num_limbs(gate.BITS) \div 2
          base == constant_extension(
                      E_from_canonical_u64(Shl64(One64, Arith_limb_bits)))
      IN  Arith_limb_loop_recursively(gate, local_wires, i, j - 1,
            [constraints |-> Append(st.constraints, product),
             combined_low_limbs |->
                IF j < midpoint
                THEN mul_add_extension(base, st.combined_low_limbs, this_limb)
                ELSE st.combined_low_limbs,
             combined_high_limbs |->
                IF j < midpoint
                THEN st.combined_high_limbs
                ELSE mul_add_extension(base, st.combined_high_limbs, this_limb)])

Arith_op_recursively(gate, local_wires, i) ==
    LET multiplicand_0 == local_wires[Arith_wire_ith_multiplicand_0(gate, i)]
        multiplicand_1 == local_wires[Arith_wire_ith_multiplicand_1(gate, i)]
        addend == local_wires[Arith_wire_ith_addend(gate, i)]
        computed_output == mul_add_extension(multiplicand_0, multiplicand_1, addend)
        output_low == local_wires[Arith_wire_ith_output_low_half(gate, i)]
        output_high == local_wires[Arith_wire_ith_output_high_half(gate, i)]
        base == EFromBase(from_canonical_u64(Shl64(One64, gate.BITS)))
        base_target == constant_extension(base)
        combined_output == mul_add_extension(output_high, base_target, output_low)
        st == Arith_limb_loop_recursively(gate, local_wires, i,
                Arith_num_limbs(gate.BITS) - 1,
                [constraints |-> <<sub_extension(combined_output, computed_output)>>,
                 combined_low_limbs |-> zero_extension,
                 combined_high_limbs |-> zero_extension])
    IN  st.constraints
          \o << sub_extension(st.combined_low_limbs, output_low),
                sub_extension(st.combined_high_limbs, output_high) >>

RECURSIVE Arith_ops_recursively(_, _, _)
Arith_ops_recursively(gate, local_wires, i) ==
    IF i >= gate.num_ops THEN <<>>
    ELSE Arith_op_recursively(gate, local_wires, i)
           \o Arith_ops_recursively(gate, local_wires, i + 1)

Arith_eval_unfiltered_recursively(gate, local_wires) ==
    Arith_ops_recursively(gate, local_wires, 0)

RECURSIVE Sub_limb_loop_recursively(_, _, _, _, _)
Sub_limb_loop_recursively(gate, local_wires, i, j, st) ==
    IF j < 0 THEN st
    ELSE
      LET this_limb == local_wires[Sub_wire_ith_output_jth_limb(gate, i, j)]
          max_limb == Pow2(Sub_limb_bits)
          product == limb_product_recursively(this_limb, 0, max_limb, one_extension)
          limb_base == constant_extension(
                           E_from_canonical_u64(Shl64(One64, Sub_limb_bits)))
      IN  Sub_limb_loop_recursively(gate, local_wires, i, j - 1,
            [constraints |-> Append(st.constraints, product),
             combined_limbs |->
                mul_add_extension(limb_base, st.combined_limbs, this_limb)])

Sub_op_recursively(gate, local_wires, i) ==
    LET input_x == local_wires[Sub_wire_ith_input_x(gate, i)]
        input_y == local_wires[Sub_wire_ith_input_y(gate, i)]
        input_borrow == local_wires[Sub_wire_ith_input_borrow(gate, i)]
        diff == sub_extension(input_x, input_y)
        result_initial == sub_extension(diff, input_borrow)
        base == constant_extension(E_from_canonical_u64(Shl64(One64, gate.BITS)))
        output_result == local_wires[Sub_wire_ith_output_result(gate, i)]
        output_borrow == local_wires[Sub_wire_ith_output_borrow(gate, i)]
        computed_output == mul_add_extension(base, output_borrow, result_initial)
        st == Sub_limb_loop_recursively(gate, local_wires, i,
                Sub_num_limbs(gate.BITS) - 1,
                [constraints |-> <<sub_extension(output_result, computed_output)>>,
                 combined_limbs |-> zero_extension])
        one == one_extension
        not_borrow == sub_extension(one, output_borrow)
    IN  st.constraints
          \o << sub_extension(st.combined_limbs, output_result),
                mul_extension(output_borrow, not_borrow) >>

RECURSIVE Sub_ops_recursively(_, _, _)
Sub_ops_recursively(gate, local_wires, i) ==
    IF i >= gate.num_ops THEN <<>>
    ELSE Sub_op_recursively(gate, local_wires, i)
           \o Sub_ops_recursively(gate, local_wires, i + 1)

Sub_eval_unfiltered_recursively(gate, local_wires) ==
    Sub_ops_recursively(gate, local_wires, 0)

eval_unfiltered_recursively(gate, local_wires) ==
    IF gate.kind = "arithmetic"
    THEN Arith_eval_unfiltered_recursively(gate, local_wires)
    ELSE Sub_eval_unfiltered_recursively(gate, local_wires)

-----------------------------------------------------------------------------
(* Bounds and input sets *)

\* ops per gate row
MaxOps == 2

\* inputs are taken within Small of each end of their range
Small == 1

\* extension points a row is opened at, beyond the base-field embedding
MaxTwist == 1

\* arbitrary rows per gate: pattern offsets 0..MaxOffset
MaxOffset == 3

\* CircuitConfig.num_wires and num_routed_wires of the configurations tried
MaxWires == 80

MaxRoutedWires == 12

\* the bit widths the gates are instantiated at
BitsSet == {8, 16, 24, 30, 32}

Kinds == {"arithmetic", "subtraction"}

\* 2^BITS - 1 - k
BelowPow2(BITS, k) == Sub64(Shl64(One64, BITS), U64(k + 1))

\* ORDER - 1 - k
BelowOrder(k) == Sub64(ORDER, U64(k + 1))

\* the in-range values 0..Small and 2^BITS-1-Small..2^BITS-1, ascending
RECURSIVE InRange(_, _)
InRange(BITS, k) ==
    IF k > 2 * Small + 1 THEN <<>>
    ELSE <<IF k <= Small THEN U64(k) ELSE BelowPow2(BITS, 2 * Small + 1 - k)>>
           \o InRange(BITS, k + 1)

\* field elements a prover may put on a wire: the in-range ones, 2^BITS,
\* and the top of the field
RECURSIVE TopOfField(_)
TopOfField(k) ==
    IF k > Small THEN <<>> ELSE TopOfField(k + 1) \o <<BelowOrder(k)>>

Pool(BITS) == InRange(BITS, 0) \o <<Shl64(One64, BITS)>> \o TopOfField(0)

\* scenario inputs of the specification: (5, 7, 2) and (10, 15, 0)
Scenario(kind) ==
    IF kind = "arithmetic" THEN <<U64(5), U64(7), U64(2)>>
    ELSE <<U64(10), U64(15), U64(0)>>

\* the inputs of op i for a choice (ia, ib, ic): the second input moves on
\* by one value per op, so that the ops of a row differ
OpInputs(gate, ia, ib, ic, i) ==
    LET vals == InRange(gate.BITS, 0)
        n == Len(vals)
    IN  << vals[ia], vals[((ib - 1 + i) % n) + 1],
           IF gate.kind = "arithmetic" THEN vals[1 + (ic - 1) * (n - 1)]
           ELSE U64(ic - 1) >>

\* the choices of the third input: the addend 0 or 2^BITS - 1, or the
\* borrow bit 0 or 1
ThirdChoices(gate) == 1..2

Ops(gate) == 0..(gate.num_ops - 1)

Wires(gate) == 0..(num_wires(gate) - 1)

\* a row with the three inputs of every op assigned and nothing else
InputRow(gate, inputs) ==
    [w \in Wires(gate) |->
        IF \E i \in Ops(gate), k \in 1..3 : dependencies(gate, i)[k] = w
        THEN LET ik == CHOOSE ik \in Ops(gate) \X (1..3) :
                          dependencies(gate, ik[1])[ik[2]] = w
             IN  inputs[ik[1]][ik[2]]
        ELSE Unset]

\* a fully assigned row: wire w holds pool value w + offset, cyclically
PatternRow(gate, offset) ==
    LET pool == Pool(gate.BITS)
    IN  [w \in Wires(gate) |-> pool[((w + offset) % Len(pool)) + 1]]

Gates ==
    {[kind |-> k, BITS |-> b, num_ops |-> n, debug_assertions |-> d] :
        k \in Kinds, b \in BitsSet, n \in 1..MaxOps, d \in BOOLEAN}

\* the gates of the rows the generators and the evaluators run on: built
\* with debug assertions, as the tests of the gates run them, so that an
\* accessor called out of range would panic
TestedGates == {g \in Gates : g.debug_assertions}

NoGate == [kind |-> "none", BITS |-> 0, num_ops |-> 0, debug_assertions |-> FALSE]

NoConfig == [num_wires |-> 0, num_routed_wires |-> 0]

-----------------------------------------------------------------------------
(* State *)

VARIABLES
    config,            \* the CircuitConfig the gate was built from, or NoConfig
    gate,              \* the gate placed on the row
    witness,           \* PartitionWitness: wire of the row -> value or Unset
    ran,               \* ops whose generator has run
    written,           \* wire -> number of set_wire calls on it
    local_wires,       \* EvaluationVars.local_wires, <<>> until built
    evaluated,         \* the evaluators that have returned
    constraints,       \* what eval_unfiltered returned
    constraints_base,  \* what eval_unfiltered_base returned
    targets_value,     \* values of the targets of eval_unfiltered_recursively
    targets_degree,    \* degrees of those targets in the wire targets
    wires_read,        \* local wire indices the evaluators have indexed
    panicked,          \* an index was out of bounds or a wire was set twice
    zero_poly,         \* the ZeroPolyOnCoset built, or NoZeroPoly
    call               \* the call in progress and what it returns, or NoCall

vars ==
    << config, gate, witness, ran, written, local_wires, evaluated, constraints,
       constraints_base, targets_value, targets_degree, wires_read, panicked,
       zero_poly, call >>

NoZeroPoly == [n |-> FZero, rate |-> 0, evals |-> <<>>, inverses |-> <<>>]

NoCall == [fn |-> "none"]

\* the witness after the set_wire calls out_buffer[k..]
RECURSIVE set_wires(_, _, _)
set_wires(w, out_buffer, k) ==
    IF k > Len(out_buffer) THEN w
    ELSE set_wires([w EXCEPT ![out_buffer[k][1]] = out_buffer[k][2]],
                   out_buffer, k + 1)

\* the state of a row before any generator or evaluator has run
Fresh(g, row) ==
    /\ config = NoConfig
    /\ gate = g
    /\ witness = row
    /\ ran = {}
    /\ written = [w \in Wires(g) |-> 0]
    /\ local_wires = <<>>
    /\ evaluated = {}
    /\ constraints = <<>>
    /\ constraints_base = <<>>
    /\ targets_value = <<>>
    /\ targets_degree = <<>>
    /\ wires_read = {}
    /\ panicked = FALSE
    /\ zero_poly = NoZeroPoly
    /\ call = NoCall

\* rows whose inputs are assigned, for every gate and every input choice
Init ==
    \E g \in TestedGates :
        \/ \E ia \in 1..Len(InRange(g.BITS, 0)),
              ib \in 1..Len(InRange(g.BITS, 0)),
              ic \in ThirdChoices(g) :
              Fresh(g, InputRow(g, [i \in Ops(g) |-> OpInputs(g, ia, ib, ic, i)]))
        \/ Fresh(g, InputRow(g, [i \in Ops(g) |-> Scenario(g.kind)]))

\* the row after the generators of ops i.. have run on it
RECURSIVE GeneratedRow(_, _, _)
GeneratedRow(g, row, i) ==
    IF i >= g.num_ops THEN row
    ELSE GeneratedRow(g, set_wires(row, run_once(g, i, row), 1), i + 1)

\* rows given in full to the evaluators: arbitrary ones, and the generated
\* row of the scenario inputs
InitEval ==
    \E g \in TestedGates :
        \/ \E offset \in 0..MaxOffset : Fresh(g, PatternRow(g, offset))
        \/ Fresh(g, GeneratedRow(g,
                     InputRow(g, [i \in Ops(g) |-> Scenario(g.kind)]), 0))

\* no gate yet, any configuration
InitConfig ==
    \E nw \in 0..MaxWires, nr \in 0..MaxRoutedWires :
        /\ config = [num_wires |-> nw, num_routed_wires |-> nr]
        /\ gate = NoGate
        /\ witness = <<>>
        /\ ran = {}
        /\ written = <<>>
        /\ local_wires = <<>>
        /\ evaluated = {}
        /\ constraints = <<>>
        /\ constraints_base = <<>>
        /\ targets_value = <<>>
        /\ targets_degree = <<>>
        /\ wires_read = {}
        /\ panicked = FALSE
        /\ zero_poly = NoZeroPoly
        /\ call = NoCall

-----------------------------------------------------------------------------
(* Actions *)

\* BinaryArithmeticGate::new_from_config / BinarySubtractionGate::new_from_config
NewFromConfig(kind, BITS, debug_assertions) ==
    /\ gate = NoGate
    /\ gate' = IF kind = "arithmetic"
               THEN Arith_new_from_config(BITS, config, debug_assertions)
               ELSE Sub_new_from_config(BITS, config, debug_assertions)
    /\ UNCHANGED << zero_poly, call >>
    /\ UNCHANGED << config, witness, ran, written, local_wires, evaluated,
                    constraints, constraints_base, targets_value, targets_degree,
                    wires_read, panicked >>

\* the number of set_wire calls of out_buffer on wire w
RECURSIVE count_writes(_, _, _)
count_writes(out_buffer, w, k) ==
    IF k > Len(out_buffer) THEN 0
    ELSE (IF out_buffer[k][1] = w THEN 1 ELSE 0) + count_writes(out_buffer, w, k + 1)

\* generator i of the row runs once its dependencies are resolved, and its
\* out_buffer is written to the witness
RunGenerator(i) ==
    /\ gate # NoGate
    /\ i \in Ops(gate)
    /\ i \notin ran
    /\ ~panicked
    /\ \A k \in 1..3 : get_wire(witness, dependencies(gate, i)[k]) # Unset
    /\ \E out_buffer \in {run_once(gate, i, witness)} :
           /\ witness' = set_wires(witness, out_buffer, 1)
           /\ written' = [w \in DOMAIN written |->
                             written[w] + count_writes(out_buffer, w, 1)]
           \* set_wire panics on a wire outside the row and on a wire that
           \* already holds another value
           /\ panicked' =
                \E k \in 1..Len(out_buffer) :
                    \/ out_buffer[k][1] \notin DOMAIN witness
                    \/ witness[out_buffer[k][1]] \notin {Unset, out_buffer[k][2]}
                    \/ \E m \in 1..(k - 1) :
                          /\ out_buffer[m][1] = out_buffer[k][1]
                          /\ out_buffer[m][2] # out_buffer[k][2]
    /\ ran' = ran \cup {i}
    /\ UNCHANGED << zero_poly, call >>
    /\ UNCHANGED << config, gate, local_wires, evaluated, constraints,
                    constraints_base, targets_value, targets_degree, wires_read >>

RowAssigned == \A w \in DOMAIN witness : witness[w] # Unset

\* the extension point number t of wire w: t = 0 is the embedding of the
\* witness value, t > 0 adds a second coefficient taken from the pool
PointValue(w, t) ==
    LET pool == Pool(gate.BITS)
    IN  IF t = 0 THEN EFromBase(witness[w])
        ELSE <<witness[w], pool[((w + t) % Len(pool)) + 1], FZero, FZero>>

\* EvaluationVars { local_wires, .. } built over the assigned row
MakeVars(t) ==
    /\ gate # NoGate
    /\ ~panicked
    /\ RowAssigned
    /\ local_wires = <<>>
    /\ local_wires' = [w \in DOMAIN witness |-> PointValue(w, t)]
    /\ UNCHANGED << zero_poly, call >>
    /\ UNCHANGED << config, gate, witness, ran, written, evaluated, constraints,
                    constraints_base, targets_value, targets_degree, wires_read,
                    panicked >>

\* the local wire indices the evaluators of the arithmetic gate index
Arith_wires_read(g) ==
    UNION {
        { Arith_wire_ith_multiplicand_0(g, i), Arith_wire_ith_multiplicand_1(g, i),
          Arith_wire_ith_addend(g, i), Arith_wire_ith_output_low_half(g, i),
          Arith_wire_ith_output_high_half(g, i) }
        \cup { Arith_wire_ith_output_jth_limb(g, i, j) :
                  j \in 0..(Arith_num_limbs(g.BITS) - 1) }
        : i \in Ops(g) }

\* the local wire indices the evaluators of the subtraction gate index
Sub_wires_read(g) ==
    UNION {
        { Sub_wire_ith_input_x(g, i), Sub_wire_ith_input_y(g, i),
          Sub_wire_ith_input_borrow(g, i), Sub_wire_ith_output_result(g, i),
          Sub_wire_ith_output_borrow(g, i) }
        \cup { Sub_wire_ith_output_jth_limb(g, i, j) :
                  j \in 0..(Sub_num_limbs(g.BITS) - 1) }
        : i \in Ops(g) }

local_wires_read(g) ==
    IF g.kind = "arithmetic" THEN Arith_wires_read(g) ELSE Sub_wires_read(g)

\* gate.eval_unfiltered(vars); indexing local_wires out of bounds panics
EvalUnfiltered ==
    /\ local_wires # <<>>
    /\ ~panicked
    /\ "eval_unfiltered" \notin evaluated
    /\ IF local_wires_read(gate) \subseteq DOMAIN local_wires
       THEN /\ constraints' = eval_unfiltered(gate, local_wires)
            /\ evaluated' = evaluated \cup {"eval_unfiltered"}
            /\ wires_read' = wires_read \cup local_wires_read(gate)
            /\ UNCHANGED panicked
       ELSE /\ panicked' = TRUE
            /\ UNCHANGED << constraints, evaluated, wires_read >>
    /\ UNCHANGED << zero_poly, call >>
    /\ UNCHANGED << config, gate, witness, ran, written, local_wires,
                    constraints_base, targets_value, targets_degree >>

\* gate.eval_unfiltered_base(vars_base) on the base-field row.  The
\* evaluators are pure, so they are taken in one order: eval_unfiltered,
\* eval_unfiltered_base, eval_unfiltered_recursively.
EvalUnfilteredBase ==
    /\ "eval_unfiltered" \in evaluated
    /\ ~panicked
    /\ "eval_unfiltered_base" \notin evaluated
    /\ IF local_wires_read(gate) \subseteq DOMAIN witness
       THEN /\ constraints_base' = eval_unfiltered_base(gate, witness)
            /\ evaluated' = evaluated \cup {"eval_unfiltered_base"}
            /\ wires_read' = wires_read \cup local_wires_read(gate)
            /\ UNCHANGED panicked
       ELSE /\ panicked' = TRUE
            /\ UNCHANGED << constraints_base, evaluated, wires_read >>
    /\ UNCHANGED << zero_poly, call >>
    /\ UNCHANGED << config, gate, witness, ran, written, local_wires,
                    constraints, targets_value, targets_degree >>

\* gate.eval_unfiltered_recursively(builder, vars) over wire targets; the
\* targets are kept by their values at local_wires and by their degrees
EvalUnfilteredRecursively ==
    /\ "eval_unfiltered_base" \in evaluated
    /\ ~panicked
    /\ "eval_unfiltered_recursively" \notin evaluated
    /\ IF local_wires_read(gate) \subseteq DOMAIN local_wires
       THEN \E targets \in {eval_unfiltered_recursively(gate,
                               [w \in DOMAIN local_wires |-> wire_target(w)])} :
                /\ targets_value' =
                      [k \in 1..Len(targets) |-> target_value(targets[k], local_wires)]
                /\ targets_degree' =
                      [k \in 1..Len(targets) |-> target_degree(targets[k])]
                /\ evaluated' = evaluated \cup {"eval_unfiltered_recursively"}
                /\ wires_read' = wires_read \cup local_wires_read(gate)
                /\ UNCHANGED panicked
       ELSE /\ panicked' = TRUE
            /\ UNCHANGED << targets_value, targets_degree, evaluated, wires_read >>
    /\ UNCHANGED << zero_poly, call >>
    /\ UNCHANGED << config, gate, witness, ran, written, local_wires,
                    constraints, constraints_base >>

-----------------------------------------------------------------------------
(* Specifications *)

\* witness generation, then the constraint check of the generated row
Next ==
    \/ \E i \in 0..(MaxOps - 1) : RunGenerator(i)
    \/ MakeVars(0)
    \/ EvalUnfiltered

Spec == Init /\ [][Next]_vars

\* the three evaluators on rows given in full
NextEval ==
    \/ \E t \in 0..MaxTwist : MakeVars(t)
    \/ EvalUnfiltered
    \/ EvalUnfilteredBase
    \/ EvalUnfilteredRecursively

SpecEval == InitEval /\ [][NextEval]_vars

\* the scheduler of a row: it runs every generator whose dependencies are
\* resolved, in any order, until none is left
NextSchedule == \E i \in 0..(MaxOps - 1) : RunGenerator(i)

SpecSchedule == Init /\ [][NextSchedule]_vars

\* gate construction from a configuration
NextConfig ==
    \E kind \in Kinds, BITS \in BitsSet, debug_assertions \in BOOLEAN :
        NewFromConfig(kind, BITS, debug_assertions)

SpecConfig == InitConfig /\ [][NextConfig]_vars

-----------------------------------------------------------------------------
(* Field operations used by plonk_common: powers, inverses, the two-adic   *)
(* subgroups and the coset shift of the Goldilocks field.                  *)

\* the bounds of the vanishing-polynomial instances: n = 2^n_log for n_log in
\* 1..MaxNLog, rate = 2^rate_bits for rate_bits in 0..MaxRateBits
MaxNLog == 2
MaxRateBits == 2

\* what inverting zero gives: inverse() panics ("Tried to invert zero")
InvertedZero == <<>>

\* Field::exp_u64: square and multiply over the bits of power, lowest first
\* (the values of one round are bound before the next round starts)
RECURSIVE exp_u64_loop(_, _, _, _)
exp_u64_loop(current, product, power, j) ==
    IF j = 64 \/ Shr64(power, j) = Zero64 THEN product
    ELSE CHOOSE result \in
            { exp_u64_loop(squared, multiplied, power, j + 1) :
                squared \in {FMul(current, current)},
                multiplied \in {IF Shr64(power, j)[1] % 2 = 1
                                THEN FMul(product, current)
                                ELSE product} } : TRUE

exp_u64(x, power) == exp_u64_loop(x, FOne, power, 0)

\* Field::exp_power_of_2: power_log squarings
RECURSIVE exp_power_of_2(_, _)
exp_power_of_2(x, power_log) ==
    IF power_log = 0 THEN x
    ELSE exp_power_of_2(FMul(x, x), power_log - 1)

\* Field::try_inverse: x^(ORDER - 2), none for zero
try_inverse(x) ==
    IF x = FZero THEN InvertedZero ELSE exp_u64(x, Sub64(ORDER, U64(2)))

\* Field::inverse: try_inverse, panicking on none
inverse(x) == try_inverse(x)

\* Div for field elements: a * b.inverse()
FDiv(a, b) ==
    IF inverse(b) = InvertedZero THEN InvertedZero ELSE FMul(a, inverse(b))

\* the running products x[1], x[1]*x[2], .. of x
RECURSIVE cumulative_products(_, _, _)
cumulative_products(x, k, acc) ==
    IF k > Len(x) THEN <<>>
    ELSE <<FMul(acc, x[k])>> \o cumulative_products(x, k + 1, FMul(acc, x[k]))

\* the inverses of x[1..k] from the running products and the inverse inv of
\* the product of x[1..k]
RECURSIVE inverses_back(_, _, _, _)
inverses_back(x, prods, k, inv) ==
    IF k = 0 THEN <<>>
    ELSE IF k = 1 THEN <<inv>>
    ELSE inverses_back(x, prods, k - 1, FMul(inv, x[k]))
            \o <<FMul(inv, prods[k - 1])>>

\* Field::batch_multiplicative_inverse: Montgomery's trick, one inversion
\* for the whole slice; a zero in the slice makes that inversion panic
batch_multiplicative_inverse(x) ==
    IF Len(x) = 0 THEN <<>>
    ELSE LET prods == cumulative_products(x, 1, FOne)
             inv == inverse(prods[Len(x)])
         IN  IF inv = InvertedZero THEN InvertedZero
             ELSE inverses_back(x, prods, Len(x), inv)

\* GoldilocksField::MULTIPLICATIVE_GROUP_GENERATOR = 7
MULTIPLICATIVE_GROUP_GENERATOR == U64(7)

\* GoldilocksField::POWER_OF_TWO_GENERATOR = 1753635133440165772, of order
\* 2^TWO_ADICITY
POWER_OF_TWO_GENERATOR == <<34700, 55896, 10716, 6230>>

TWO_ADICITY == 32

\* Field::coset_shift
coset_shift == MULTIPLICATIVE_GROUP_GENERATOR

\* Field::primitive_root_of_unity(n_log)
primitive_root_of_unity(n_log) ==
    exp_power_of_2(POWER_OF_TWO_GENERATOR, TWO_ADICITY - n_log)

\* the first count powers of x from current on
RECURSIVE powers(_, _, _)
powers(x, current, count) ==
    IF count = 0 THEN <<>>
    ELSE <<current>> \o powers(x, FMul(current, x), count - 1)

\* Field::two_adic_subgroup(n_log): the powers of the primitive root, from 1
two_adic_subgroup(n_log) ==
    powers(primitive_root_of_unity(n_log), FOne, Pow2(n_log))

\* Field::multiply_accumulate: self + x * y
multiply_accumulate(self, x, y) == FAdd(self, FMul(x, y))

-----------------------------------------------------------------------------
(* plonk_common: the vanishing polynomial of the subgroup H of order n on  *)
(* the coset g H' of the subgroup H' of order rate * n, the first Lagrange *)
(* polynomial, and the reductions by powers.                               *)

\* eval_zero_poly(n, x) = x^n - 1
eval_zero_poly(n, x) == FSub(exp_u64(x, U64(n)), FOne)

\* ZeroPolyOnCoset::new with the subgroup of order rate * n in place of the
\* subgroup of order rate
ZeroPolyOnCoset_new_whole_subgroup(n_log, rate_bits) ==
    LET g_pow_n == exp_power_of_2(coset_shift, n_log)
        subgroup == two_adic_subgroup(n_log + rate_bits)
        evals == [k \in 1..Pow2(rate_bits) |->
                     FSub(FMul(g_pow_n, subgroup[k]), FOne)]
    IN  [n |-> from_canonical_usize(Pow2(n_log)),
         rate |-> Pow2(rate_bits),
         evals |-> evals,
         inverses |-> batch_multiplicative_inverse(evals)]

\* ZeroPolyOnCoset::new without the coset shift
ZeroPolyOnCoset_new_unshifted(n_log, rate_bits) ==
    LET subgroup == two_adic_subgroup(rate_bits)
        evals == [k \in 1..Pow2(rate_bits) |-> FSub(subgroup[k], FOne)]
    IN  [n |-> from_canonical_usize(Pow2(n_log)),
         rate |-> Pow2(rate_bits),
         evals |-> evals,
         inverses |-> batch_multiplicative_inverse(evals)]

\* ZeroPolyOnCoset::new(n_log, rate_bits)
ZeroPolyOnCoset_new(n_log, rate_bits) ==
    LET g_pow_n == exp_power_of_2(coset_shift, n_log)
        subgroup == two_adic_subgroup(rate_bits)
        evals == [k \in 1..Pow2(rate_bits) |->
                     FSub(FMul(g_pow_n, subgroup[k]), FOne)]
    IN  [n |-> from_canonical_usize(Pow2(n_log)),
         rate |-> Pow2(rate_bits),
         evals |-> evals,
         inverses |-> batch_multiplicative_inverse(evals)]

\* ZeroPolyOnCoset::eval(i)
ZeroPolyOnCoset_eval(self, i) == self.evals[(i % self.rate) + 1]

\* ZeroPolyOnCoset::eval_inverse(i)
ZeroPolyOnCoset_eval_inverse(self, i) == self.inverses[(i % self.rate) + 1]

\* ZeroPolyOnCoset::eval_l1 without the factor n of the denominator
ZeroPolyOnCoset_eval_l1_without_n(self, i, x) ==
    IF inverse(FSub(x, FOne)) = InvertedZero THEN InvertedZero
    ELSE FMul(ZeroPolyOnCoset_eval(self, i), inverse(FSub(x, FOne)))

\* ZeroPolyOnCoset::eval_l1(i, x) = eval(i) * (n * (x - 1)).inverse()
ZeroPolyOnCoset_eval_l1(self, i, x) ==
    IF inverse(FMul(self.n, FSub(x, FOne))) = InvertedZero THEN InvertedZero
    ELSE FMul(ZeroPolyOnCoset_eval(self, i),
              inverse(FMul(self.n, FSub(x, FOne))))

\* eval_l_1 without the early return at x = 1
eval_l_1_always_dividing(n, x) ==
    [ret |-> FDiv(eval_zero_poly(n, x),
                  FMul(from_canonical_usize(n), FSub(x, FOne))),
     divisions |-> 1]

\* eval_l_1(n, x): what it returns and how many divisions it performed
eval_l_1_run(n, x) ==
    IF x = FOne THEN [ret |-> FOne, divisions |-> 0]
    ELSE [ret |-> FDiv(eval_zero_poly(n, x),
                       FMul(from_canonical_usize(n), FSub(x, FOne))),
          divisions |-> 1]

\* eval_l_1(n, x) = (x^n - 1) / (n * (x - 1)), and 1 at x = 1
eval_l_1(n, x) == eval_l_1_run(n, x).ret

\* the cumul of reduce_with_powers_multi after one more term:
\* *c = term.multiply_accumulate(*c, alpha), for every alpha
cumul_step(cumul, term, alphas) ==
    [k \in 1..Len(alphas) |-> multiply_accumulate(term, cumul[k], alphas[k])]

\* the loop of reduce_with_powers_multi over terms[1..k], last term first
RECURSIVE reduce_with_powers_multi_loop(_, _, _, _)
reduce_with_powers_multi_loop(terms, alphas, k, cumul) ==
    IF k = 0 THEN cumul
    ELSE reduce_with_powers_multi_loop(terms, alphas, k - 1,
                                       cumul_step(cumul, terms[k], alphas))

\* reduce_with_powers_multi(terms, alphas)
reduce_with_powers_multi(terms, alphas) ==
    reduce_with_powers_multi_loop(terms, alphas, Len(terms),
                                  [k \in 1..Len(alphas) |-> FZero])

\* the loop of reduce_with_powers over terms[1..k], last term first:
\* sum = sum * alpha + term
RECURSIVE reduce_with_powers_loop(_, _, _, _)
reduce_with_powers_loop(terms, alpha, k, sum) ==
    IF k = 0 THEN sum
    ELSE reduce_with_powers_loop(terms, alpha, k - 1,
                                 FAdd(FMul(sum, alpha), terms[k]))

\* the loop of reduce_with_powers taking the terms first to last
RECURSIVE reduce_with_powers_forwards_loop(_, _, _, _)
reduce_with_powers_forwards_loop(terms, alpha, k, sum) ==
    IF k > Len(terms) THEN sum
    ELSE reduce_with_powers_forwards_loop(terms, alpha, k + 1,
                                          FAdd(FMul(sum, alpha), terms[k]))

\* a faulty reduce_with_powers: the terms are not reversed
reduce_with_powers_forwards(terms, alpha) ==
    reduce_with_powers_forwards_loop(terms, alpha, 1, FZero)

\* reduce_with_powers(terms, alpha)
reduce_with_powers(terms, alpha) ==
    reduce_with_powers_loop(terms, alpha, Len(terms), FZero)

-----------------------------------------------------------------------------
(* Calls of the plonk_common functions *)

\* the usize of a small canonical field element
to_usize(x) == x[1] + Word * x[2]

\* log2 of a power of two
RECURSIVE log2_strict(_)
log2_strict(n) == IF n <= 1 THEN 0 ELSE 1 + log2_strict(n \div 2)

\* the point of index i of the coset g H' the prover evaluates on: g * w^i
\* with w = primitive_root_of_unity(n_log + rate_bits)
coset_point(n_log, rate_bits, i) ==
    FMul(coset_shift, exp_u64(primitive_root_of_unity(n_log + rate_bits), U64(i)))

\* the points eval_l_1 is called at for n = 2^n_log: the subgroup of order n
\* and its coset by the coset shift
ScalarPoints(n_log) ==
    {two_adic_subgroup(n_log)[k] : k \in 1..Pow2(n_log)}
        \cup {FMul(coset_shift, two_adic_subgroup(n_log)[k]) : k \in 1..Pow2(n_log)}

\* the gate variables of a state without a gate
NoGateState ==
    /\ config = NoConfig
    /\ gate = NoGate
    /\ witness = <<>>
    /\ ran = {}
    /\ written = <<>>
    /\ local_wires = <<>>
    /\ evaluated = {}
    /\ constraints = <<>>
    /\ constraints_base = <<>>
    /\ targets_value = <<>>
    /\ targets_degree = <<>>
    /\ wires_read = {}
    /\ panicked = FALSE

gate_vars ==
    << config, gate, witness, ran, written, local_wires, evaluated, constraints,
       constraints_base, targets_value, targets_degree, wires_read, panicked >>

InitPlonk ==
    /\ NoGateState
    /\ zero_poly = NoZeroPoly
    /\ call = NoCall

\* ZeroPolyOnCoset::new(n_log, rate_bits); the batched inversion panics on a
\* zero and then nothing is built
ZeroPolyNew(n_log, rate_bits) ==
    /\ call = NoCall
    /\ zero_poly = NoZeroPoly
    /\ \E built \in {ZeroPolyOnCoset_new(n_log, rate_bits)} :
          IF built.inverses = InvertedZero
          THEN /\ call' = [fn |-> "new", n_log |-> n_log, rate_bits |-> rate_bits,
                           panicked |-> TRUE]
               /\ UNCHANGED zero_poly
          ELSE /\ call' = [fn |-> "new", n_log |-> n_log, rate_bits |-> rate_bits,
                           panicked |-> FALSE]
               /\ zero_poly' = built
    /\ UNCHANGED gate_vars

\* the indices of the coset points of the instance: 0..rate * n
Indices == 0..(zero_poly.rate * to_usize(zero_poly.n) - 1)

\* zero_poly.eval(i)
CallEval(i) ==
    /\ call = NoCall
    /\ zero_poly # NoZeroPoly
    /\ i \in Indices
    /\ call' = [fn |-> "eval", i |-> i, ret |-> ZeroPolyOnCoset_eval(zero_poly, i)]
    /\ UNCHANGED zero_poly
    /\ UNCHANGED gate_vars

\* zero_poly.eval_inverse(i)
CallEvalInverse(i) ==
    /\ call = NoCall
    /\ zero_poly # NoZeroPoly
    /\ i \in Indices
    /\ call' = [fn |-> "eval_inverse", i |-> i,
                ret |-> ZeroPolyOnCoset_eval_inverse(zero_poly, i)]
    /\ UNCHANGED zero_poly
    /\ UNCHANGED gate_vars

\* zero_poly.eval_l1(i, x) at x the coset point of index i
CallEvalL1(i) ==
    /\ call = NoCall
    /\ zero_poly # NoZeroPoly
    /\ i \in Indices
    /\ \E x \in {coset_point(log2_strict(to_usize(zero_poly.n)),
                             log2_strict(zero_poly.rate), i)} :
          call' = [fn |-> "eval_l1", i |-> i, x |-> x,
                   ret |-> ZeroPolyOnCoset_eval_l1(zero_poly, i, x)]
    /\ UNCHANGED zero_poly
    /\ UNCHANGED gate_vars

\* eval_l_1(n, x)
CallEvalL_1(n_log, x) ==
    /\ call = NoCall
    /\ \E run \in {eval_l_1_run(Pow2(n_log), x)} :
          call' = [fn |-> "eval_l_1", n |-> Pow2(n_log), x |-> x,
                   ret |-> run.ret, divisions |-> run.divisions]
    /\ UNCHANGED zero_poly
    /\ UNCHANGED gate_vars

\* the caller takes the returned value
Return ==
    /\ call # NoCall
    /\ call' = NoCall
    /\ UNCHANGED zero_poly
    /\ UNCHANGED gate_vars

NextPlonk ==
    \/ Return
    \/ \E n_log \in 1..MaxNLog, rate_bits \in 0..MaxRateBits :
          ZeroPolyNew(n_log, rate_bits)
    \/ \E i \in 0..(Pow2(MaxNLog + MaxRateBits) - 1) : CallEval(i)
    \/ \E i \in 0..(Pow2(MaxNLog + MaxRateBits) - 1) : CallEvalInverse(i)
    \/ \E i \in 0..(Pow2(MaxNLog + MaxRateBits) - 1) : CallEvalL1(i)
    \/ \E n_log \in 1..MaxNLog : \E x \in ScalarPoints(n_log) : CallEvalL_1(n_log, x)

SpecPlonk == InitPlonk /\ [][NextPlonk]_vars

-----------------------------------------------------------------------------
(* Calls of the wire-index accessors *)

\* the wire-index accessors of each gate
AccessorNames(kind) ==
    IF kind = "arithmetic"
    THEN {"wire_ith_multiplicand_0", "wire_ith_multiplicand_1", "wire_ith_addend",
          "wire_ith_output_low_half", "wire_ith_output_high_half",
          "wire_ith_output_jth_limb"}
    ELSE {"wire_ith_input_x", "wire_ith_input_y", "wire_ith_input_borrow",
          "wire_ith_output_result", "wire_ith_output_borrow",
          "wire_ith_output_jth_limb"}

\* self.<name>(i) or self.wire_ith_output_jth_limb(i, j): the index returned,
\* or PANIC when an assertion fails
wire_accessor(self, name, i, j) ==
    IF self.kind = "arithmetic"
    THEN CASE name = "wire_ith_multiplicand_0" -> Arith_wire_ith_multiplicand_0(self, i)
           [] name = "wire_ith_multiplicand_1" -> Arith_wire_ith_multiplicand_1(self, i)
           [] name = "wire_ith_addend" -> Arith_wire_ith_addend(self, i)
           [] name = "wire_ith_output_low_half" -> Arith_wire_ith_output_low_half(self, i)
           [] name = "wire_ith_output_high_half" -> Arith_wire_ith_output_high_half(self, i)
           [] OTHER -> Arith_wire_ith_output_jth_limb(self, i, j)
    ELSE CASE name = "wire_ith_input_x" -> Sub_wire_ith_input_x(self, i)
           [] name = "wire_ith_input_y" -> Sub_wire_ith_input_y(self, i)
           [] name = "wire_ith_input_borrow" -> Sub_wire_ith_input_borrow(self, i)
           [] name = "wire_ith_output_result" -> Sub_wire_ith_output_result(self, i)
           [] name = "wire_ith_output_borrow" -> Sub_wire_ith_output_borrow(self, i)
           [] OTHER -> Sub_wire_ith_output_jth_limb(self, i, j)

\* how far past the last op and the last limb the accessors are called
MaxBeyond == 1

\* a gate of any kind, width, size and build, no call in progress
InitAccess ==
    \E g \in Gates :
        /\ config = NoConfig
        /\ gate = g
        /\ witness = <<>>
        /\ ran = {}
        /\ written = <<>>
        /\ local_wires = <<>>
        /\ evaluated = {}
        /\ constraints = <<>>
        /\ constraints_base = <<>>
        /\ targets_value = <<>>
        /\ targets_degree = <<>>
        /\ wires_read = {}
        /\ panicked = FALSE
        /\ zero_poly = NoZeroPoly
        /\ call = NoCall

\* a call of an accessor of the gate with any op index and limb index, in
\* range or not (the limb index is an argument of the limb accessor only)
CallAccessor(name, i, j) ==
    /\ gate # NoGate
    /\ call = NoCall
    /\ name \in AccessorNames(gate.kind)
    /\ i \in 0..(gate.num_ops + MaxBeyond)
    /\ j \in IF name = "wire_ith_output_jth_limb"
             THEN 0..(num_limbs(gate) + MaxBeyond) ELSE {0}
    /\ call' = [fn |-> name, i |-> i, j |-> j,
                ret |-> wire_accessor(gate, name, i, j)]
    /\ UNCHANGED zero_poly
    /\ UNCHANGED gate_vars

NextAccess ==
    \/ Return
    \/ \E name \in AccessorNames(gate.kind),
          i \in 0..(gate.num_ops + MaxBeyond),
          j \in 0..(num_limbs(gate) + MaxBeyond) :
          CallAccessor(name, i, j)

SpecAccess == InitAccess /\ [][NextAccess]_vars

-----------------------------------------------------------------------------
(* Calls of the reductions by powers *)

\* the longest sequence of terms and the longest list of alphas
MaxTerms == 3
MaxAlphas == 2

\* the field elements the terms and the alphas are taken from
ReduceValues == {FZero, POWER_OF_TWO_GENERATOR, Sub64(ORDER, One64)}

\* the sequences of at most n of these field elements
ReduceSeqs(n) == UNION {[1..m -> ReduceValues] : m \in 0..n}

InitReduce ==
    /\ NoGateState
    /\ zero_poly = NoZeroPoly
    /\ call = NoCall

\* reduce_with_powers(terms, alpha)
CallReduceWithPowers(terms, alpha) ==
    /\ call = NoCall
    /\ call' = [fn |-> "reduce_with_powers", terms |-> terms, alpha |-> alpha,
                ret |-> reduce_with_powers(terms, alpha)]
    /\ UNCHANGED zero_poly
    /\ UNCHANGED gate_vars

\* reduce_with_powers_multi(terms, alphas)
CallReduceWithPowersMulti(terms, alphas) ==
    /\ call = NoCall
    /\ call' = [fn |-> "reduce_with_powers_multi", terms |-> terms,
                alphas |-> alphas,
                ret |-> reduce_with_powers_multi(terms, alphas)]
    /\ UNCHANGED zero_poly
    /\ UNCHANGED gate_vars

NextReduce ==
    \/ Return
    \/ \E terms \in ReduceSeqs(MaxTerms), alpha \in ReduceValues :
          CallReduceWithPowers(terms, alpha)
    \/ \E terms \in ReduceSeqs(MaxTerms), alphas \in ReduceSeqs(MaxAlphas) :
          CallReduceWithPowersMulti(terms, alphas)

SpecReduce == InitReduce /\ [][NextReduce]_vars

-----------------------------------------------------------------------------
(* Properties.  Integers that may exceed a word are compared as            *)
(* little-endian word sequences of any length.                             *)

\* a + b + carry, from word k on
RECURSIVE WideAddFrom(_, _, _, _)
WideAddFrom(a, b, k, carry) ==
    IF k > Len(a) /\ k > Len(b)
    THEN IF carry = 0 THEN <<>> ELSE <<carry>>
    ELSE LET sum == (IF k <= Len(a) THEN a[k] ELSE 0)
                      + (IF k <= Len(b) THEN b[k] ELSE 0) + carry
         IN  <<sum % Word>> \o WideAddFrom(a, b, k + 1, sum \div Word)

WideAdd(a, b) == WideAddFrom(a, b, 1, 0)

\* a without its leading zero words
RECURSIVE Trim(_)
Trim(a) ==
    IF Len(a) > 0 /\ a[Len(a)] = 0 THEN Trim(SubSeq(a, 1, Len(a) - 1)) ELSE a

\* a = b as integers
IntEq(a, b) == Trim(a) = Trim(b)

\* 2^BITS of the gate on the row
PowBITS == Shl64(One64, gate.BITS)

\* the three input values of op i
InputsOf(i) ==
    [k \in 1..3 |-> witness[dependencies(gate, i)[k]]]

\* the first two inputs of every op are below 2^BITS and the third is an
\* addend below 2^BITS or a borrow bit
InputsInRange ==
    \A i \in Ops(gate) :
        /\ Lt64(InputsOf(i)[1], PowBITS)
        /\ Lt64(InputsOf(i)[2], PowBITS)
        /\ IF gate.kind = "arithmetic" THEN Lt64(InputsOf(i)[3], PowBITS)
           ELSE InputsOf(i)[3] \in {Zero64, One64}

AllZero(cs) == \A k \in 1..Len(cs) : cs[k] = EZero

\* C1: on a row of BinaryArithmeticGate whose inputs are below 2^BITS and
\* whose output_low, output_high and limb wires were written by the
\* generators, eval_unfiltered returns num_constraints() entries, all zero;
\* with BITS = 24 and inputs (5, 7, 2) the row holds output_low = 37 and
\* output_high = 0.
C1_ArithmeticConstraintsVanish ==
    (/\ gate.kind = "arithmetic"
     /\ "eval_unfiltered" \in evaluated
     /\ ran = Ops(gate)
     /\ InputsInRange)
    => /\ Len(constraints) = Arith_num_constraints(gate)
       /\ AllZero(constraints)
       /\ \A i \in Ops(gate) :
             (gate.BITS = 24 /\ InputsOf(i) = Scenario("arithmetic"))
             => /\ witness[Arith_wire_ith_output_low_half(gate, i)] = U64(37)
                /\ witness[Arith_wire_ith_output_high_half(gate, i)] = Zero64

\* two ops with BITS = 24 and inputs (5, 7, 2), checked
C1_Witness ==
    /\ gate.kind = "arithmetic"
    /\ gate.BITS = 24
    /\ gate.num_ops = 2
    /\ "eval_unfiltered" \in evaluated
    /\ ran = Ops(gate)
    /\ InputsOf(1) = Scenario("arithmetic")
    /\ witness[Arith_wire_ith_output_low_half(gate, 1)] = U64(37)
    /\ witness[Arith_wire_ith_output_high_half(gate, 1)] = Zero64
    /\ AllZero(constraints)

\* the outputs op i of the arithmetic gate wrote are the exact halves of
\* multiplicand_0 * multiplicand_1 + addend
ArithmeticOutputExact(i) ==
    LET multiplicand_0 == witness[Arith_wire_ith_multiplicand_0(gate, i)]
        multiplicand_1 == witness[Arith_wire_ith_multiplicand_1(gate, i)]
        addend == witness[Arith_wire_ith_addend(gate, i)]
        output_low == witness[Arith_wire_ith_output_low_half(gate, i)]
        output_high == witness[Arith_wire_ith_output_high_half(gate, i)]
    IN  (/\ Lt64(multiplicand_0, PowBITS)
         /\ Lt64(multiplicand_1, PowBITS)
         /\ Lt64(addend, PowBITS))
        => /\ Lt64(output_low, PowBITS)
           /\ Lt64(output_high, PowBITS)
           /\ IntEq(WideAdd(output_low, Mul64(PowBITS, output_high)),
                    WideAdd(Mul64(multiplicand_0, multiplicand_1), addend))

\* C2: for inputs below 2^BITS the values BinaryArithmeticGenerator.run_once
\* writes satisfy output_low + 2^BITS * output_high = multiplicand_0 *
\* multiplicand_1 + addend as integers, with both halves below 2^BITS: the
\* field product wraps neither modulo the field order nor modulo 2^64.
C2_ArithmeticOutputIsInteger ==
    gate.kind = "arithmetic" => \A i \in ran : ArithmeticOutputExact(i)

\* BITS = 32 with all three inputs 2^32 - 1: the output is ORDER - 1
C2_Witness ==
    /\ gate.kind = "arithmetic"
    /\ gate.BITS = 32
    /\ 0 \in ran
    /\ InputsOf(0) = [k \in 1..3 |-> BelowPow2(32, 0)]
    /\ witness[Arith_wire_ith_output_low_half(gate, 0)] = Zero64
    /\ witness[Arith_wire_ith_output_high_half(gate, 0)] = BelowPow2(32, 0)

\* the outputs op i of the subtraction gate wrote are the difference and
\* its borrow
SubtractionOutputExact(i) ==
    LET input_x == witness[Sub_wire_ith_input_x(gate, i)]
        input_y == witness[Sub_wire_ith_input_y(gate, i)]
        input_borrow == witness[Sub_wire_ith_input_borrow(gate, i)]
        output_result == witness[Sub_wire_ith_output_result(gate, i)]
        output_borrow == witness[Sub_wire_ith_output_borrow(gate, i)]
    IN  (/\ Lt64(input_x, PowBITS)
         /\ Lt64(input_y, PowBITS)
         /\ input_borrow \in {Zero64, One64})
        => /\ Lt64(output_result, PowBITS)
           /\ output_borrow \in {Zero64, One64}
           \* result + y + borrow_in = x + borrow_out * 2^BITS
           /\ IntEq(WideAdd(WideAdd(output_result, input_y), input_borrow),
                    WideAdd(input_x, Mul64(output_borrow, PowBITS)))
           /\ (output_borrow = One64)
                 <=> Lt64(input_x, Low64(Add64(input_y, input_borrow)))
           /\ (gate.BITS = 32 /\ InputsOf(i) = Scenario("subtraction"))
                 => /\ output_borrow = One64
                    /\ output_result = <<65531, 65535, 0, 0>>
           \* x - y - borrow_in = -2^BITS
           /\ (/\ input_x = Zero64
               /\ input_y = BelowPow2(gate.BITS, 0)
               /\ input_borrow = One64)
                 => output_result = Zero64 /\ output_borrow = One64
           \* x - y - borrow_in = 0
           /\ input_x = Low64(Add64(input_y, input_borrow))
                 => output_result = Zero64 /\ output_borrow = Zero64

\* C3: for x, y below 2^BITS and borrow_in a bit, the values
\* BinarySubtractionGenerator.run_once writes satisfy result < 2^BITS,
\* borrow_out a bit, and result = x - y - borrow_in + borrow_out * 2^BITS as
\* integers, so borrow_out = 1 exactly when x < y + borrow_in; BITS = 32 with
\* (10, 15, 0) gives borrow_out = 1 and result = 4294967291; the differences
\* -2^BITS and 0 both give result 0.
C3_SubtractionOutputIsInteger ==
    gate.kind = "subtraction" => \A i \in ran : SubtractionOutputExact(i)

\* BITS = 32 with (10, 15, 0): underflow
C3_Witness ==
    /\ gate.kind = "subtraction"
    /\ gate.BITS = 32
    /\ 0 \in ran
    /\ InputsOf(0) = Scenario("subtraction")
    /\ witness[Sub_wire_ith_output_borrow(gate, 0)] = One64
    /\ witness[Sub_wire_ith_output_result(gate, 0)] = <<65531, 65535, 0, 0>>

\* C4: on a row of BinarySubtractionGate whose inputs x, y are below 2^BITS
\* with borrow_in a bit, and whose output_result, output_borrow and limb wires
\* were written by the generators, every entry eval_unfiltered returns is zero.
C4_SubtractionConstraintsVanish ==
    (/\ gate.kind = "subtraction"
     /\ "eval_unfiltered" \in evaluated
     /\ ran = Ops(gate)
     /\ InputsInRange)
    => /\ Len(constraints) = Sub_num_constraints(gate)
       /\ AllZero(constraints)

\* two ops, the first at the difference -2^BITS, checked
C4_Witness ==
    /\ gate.kind = "subtraction"
    /\ gate.num_ops = 2
    /\ "eval_unfiltered" \in evaluated
    /\ ran = Ops(gate)
    /\ InputsOf(0) = <<Zero64, BelowPow2(gate.BITS, 0), One64>>
    /\ witness[Sub_wire_ith_output_borrow(gate, 0)] = One64
    /\ Len(constraints) = 2 * (3 + Sub_num_limbs(gate.BITS))
    /\ AllZero(constraints)

\* local_wires holds the base-field embeddings of the row
IsEmbedding ==
    /\ DOMAIN local_wires = DOMAIN witness
    /\ \A w \in DOMAIN witness : local_wires[w] = EFromBase(witness[w])

\* C5: for both gates and any base-field values on the row, eval_unfiltered
\* on the embeddings of the values returns the embedding of what
\* eval_unfiltered_base returns: same length, same order, equal entry by entry.
C5_ExtensionAgreesWithBase ==
    ("eval_unfiltered_base" \in evaluated /\ IsEmbedding)
    => /\ Len(constraints) = Len(constraints_base)
       /\ \A k \in 1..Len(constraints_base) :
             constraints[k] = EFromBase(constraints_base[k])

\* a row that violates the relation and a range check, on both evaluators
C5_Witness ==
    /\ "eval_unfiltered_base" \in evaluated
    /\ IsEmbedding
    /\ gate.num_ops = 2
    /\ Len(constraints_base) = num_constraints(gate)
    /\ constraints_base[1] # FZero
    /\ constraints_base[2] # FZero
    /\ constraints[2] = EFromBase(constraints_base[2])

\* C6: for both gates the k-th target eval_unfiltered_recursively returns
\* takes, at any values of the wires, the value of the k-th entry of
\* eval_unfiltered, for every k below num_constraints().
C6_RecursiveAgreesWithExtension ==
    "eval_unfiltered_recursively" \in evaluated
    => /\ Len(targets_value) = num_constraints(gate)
       /\ Len(constraints) = num_constraints(gate)
       /\ \A k \in 1..num_constraints(gate) : targets_value[k] = constraints[k]

\* a row opened at a point outside the base field, with a constraint value
\* outside the base field
C6_Witness ==
    /\ "eval_unfiltered_recursively" \in evaluated
    /\ ~IsEmbedding
    /\ \E k \in 1..Len(targets_value) :
          ~EIsBase(targets_value[k]) /\ targets_value[k] = constraints[k]

\* C7: for both gates each evaluator returns num_constraints() =
\* num_ops * (3 + num_limbs) values and indexes local wires only in
\* 0..num_wires()-1, where num_wires() = num_ops * (5 + num_limbs);
\* num_constants() is 0.
C7_CountsMatchEvaluators ==
    /\ num_constants(gate) = 0
    /\ num_wires(gate) = gate.num_ops * (5 + num_limbs(gate))
    /\ num_constraints(gate) = gate.num_ops * (3 + num_limbs(gate))
    /\ ~panicked
    /\ wires_read \subseteq 0..(num_wires(gate) - 1)
    /\ "eval_unfiltered" \in evaluated
          => Len(constraints) = num_constraints(gate)
    /\ "eval_unfiltered_base" \in evaluated
          => Len(constraints_base) = num_constraints(gate)
    /\ "eval_unfiltered_recursively" \in evaluated
          => Len(targets_value) = num_constraints(gate)

\* all three evaluators returned on a row of two subtraction ops
C7_Witness ==
    /\ gate.kind = "subtraction"
    /\ gate.num_ops = 2
    /\ evaluated = {"eval_unfiltered", "eval_unfiltered_base",
                    "eval_unfiltered_recursively"}
    /\ wires_read = 0..(Sub_num_wires(gate) - 1)
    /\ Len(targets_value) = 2 * (3 + Sub_num_limbs(gate.BITS))

\* what the k-th constraint of a row is
ConstraintKind(k) ==
    LET per_op == 3 + num_limbs(gate)
        r == (k - 1) % per_op
    IN  IF r = 0 THEN "relation"
        ELSE IF r <= num_limbs(gate) THEN "range"
        ELSE IF gate.kind = "subtraction" /\ r = per_op - 1 THEN "booleanity"
        ELSE "recombination"

\* the limb range-check product vanishes at 0..2^limb_bits-1 and not at
\* 2^limb_bits: a polynomial in the limb with 2^limb_bits roots that is not
\* zero has degree at least 2^limb_bits
RangeProductDegreeAtLeast ==
    LET max_limb == Pow2(limb_bits(gate))
    IN  /\ \A v \in 0..(max_limb - 1) :
              limb_product_base(U64(v), max_limb) = FZero
        /\ limb_product_base(U64(max_limb), max_limb) # FZero

\* C8: for both gates every constraint has degree in the wires at most
\* degree() = 2^limb_bits = 4: the limb range-check product has degree
\* exactly 2^limb_bits, the relation and the borrow booleanity constraint at
\* most 2, the limb recombination constraints 1.
C8_DegreesWithinDegree ==
    "eval_unfiltered_recursively" \in evaluated
    => /\ degree(gate) = Pow2(limb_bits(gate))
       /\ degree(gate) = 4
       /\ RangeProductDegreeAtLeast
       /\ \A k \in 1..Len(targets_degree) :
             /\ targets_degree[k] <= degree(gate)
             /\ ConstraintKind(k) = "range"
                   => targets_degree[k] = Pow2(limb_bits(gate))
             /\ ConstraintKind(k) \in {"relation", "booleanity"}
                   => targets_degree[k] <= 2
             /\ ConstraintKind(k) = "recombination" => targets_degree[k] = 1

\* an arithmetic row: relation of degree 2, range checks of degree 4,
\* recombinations of degree 1
C8_Witness ==
    /\ "eval_unfiltered_recursively" \in evaluated
    /\ gate.kind = "arithmetic"
    /\ targets_degree[1] = 2
    /\ targets_degree[2] = 4
    /\ targets_degree[Len(targets_degree)] = 1
    /\ degree(gate) = 4

\* k ops fit the wire budget and the routed-wire budget of the configuration
Fits(k) ==
    /\ k * (5 + num_limbs(gate)) <= config.num_wires
    /\ 5 * k <= config.num_routed_wires

\* C9: num_ops(config) is the largest k with k * (5 + num_limbs) <=
\* num_wires and 5 * k <= num_routed_wires, so a gate built by
\* new_from_config has num_wires() <= config.num_wires and its 5 * num_ops
\* input and output wires are routed.
C9_NumOpsIsLargestFit ==
    gate # NoGate
    => /\ Fits(gate.num_ops)
       /\ \A k \in 0..(config.num_wires + 1) : Fits(k) => k <= gate.num_ops
       /\ num_wires(gate) <= config.num_wires
       /\ 5 * gate.num_ops <= config.num_routed_wires
       /\ \A i \in Ops(gate), k \in 1..3 :
             dependencies(gate, i)[k] < config.num_routed_wires
       /\ \A i \in Ops(gate) :
             IF gate.kind = "arithmetic"
             THEN /\ Arith_wire_ith_output_low_half(gate, i)
                        < config.num_routed_wires
                  /\ Arith_wire_ith_output_high_half(gate, i)
                        < config.num_routed_wires
             ELSE /\ Sub_wire_ith_output_result(gate, i)
                        < config.num_routed_wires
                  /\ Sub_wire_ith_output_borrow(gate, i)
                        < config.num_routed_wires

\* the routed-wire budget decides: 80 wires would hold six ops of 13 wires
C9_Witness ==
    /\ gate.kind = "arithmetic"
    /\ gate.BITS = 8
    /\ gate.num_ops = 2
    /\ config = [num_wires |-> 80, num_routed_wires |-> 12]

\* the limbs of op i are digits, and the recombination constraints the
\* evaluator pushed for op i are zero
LimbsFoldBack(i) ==
    LET per_op == 3 + num_limbs(gate)
        last == (i + 1) * per_op
    IN  /\ \A j \in 0..(num_limbs(gate) - 1) :
              Lt64(witness[IF gate.kind = "arithmetic"
                           THEN Arith_wire_ith_output_jth_limb(gate, i, j)
                           ELSE Sub_wire_ith_output_jth_limb(gate, i, j)],
                   U64(Pow2(limb_bits(gate))))
        /\ IF gate.kind = "arithmetic"
           THEN \* combined_low_limbs - output_low, combined_high_limbs - output_high
                constraints[last - 1] = EZero /\ constraints[last] = EZero
           ELSE \* combined_limbs - output_result
                constraints[last - 1] = EZero

\* C10: the limbs a generator writes are base-2^limb_bits digits, and the
\* evaluator's recombination of them (j from num_limbs-1 down to 0, acc =
\* base * acc + limb_j) gives back the decomposed value: output_result for
\* the subtraction gate; output_low from limbs 0..midpoint and output_high
\* from limbs midpoint..num_limbs for the arithmetic gate.
C10_LimbRoundTrip ==
    ("eval_unfiltered" \in evaluated /\ ran = Ops(gate) /\ IsEmbedding)
    => /\ Len(constraints) = num_constraints(gate)
       /\ \A i \in Ops(gate) : LimbsFoldBack(i)

\* the values 2^BITS - 1 and 0 decomposed and folded back
C10_Witness ==
    /\ gate.kind = "arithmetic"
    /\ "eval_unfiltered" \in evaluated
    /\ ran = Ops(gate)
    /\ witness[Arith_wire_ith_output_low_half(gate, 0)] = BelowPow2(gate.BITS, 0)
    /\ witness[Arith_wire_ith_output_high_half(gate, 0)] = Zero64
    /\ \A j \in 0..(Arith_num_limbs(gate.BITS) \div 2 - 1) :
          witness[Arith_wire_ith_output_jth_limb(gate, 0, j)] = U64(3)
    /\ LimbsFoldBack(0)

-----------------------------------------------------------------------------
(* Properties of plonk_common *)

\* x is in the multiplicative subgroup of order n
InSubgroup(n, x) ==
    \E k \in 1..n : x = two_adic_subgroup(log2_strict(n))[k]

\* C11: for n a power of two and x in the subgroup of order n, eval_l_1(n, x)
\* returns exactly 1 at x = 1, without performing a division, and exactly 0
\* at every other x
C11_FirstLagrangeOnSubgroup ==
    (call.fn = "eval_l_1" /\ InSubgroup(call.n, call.x)) =>
        /\ call.x = FOne => (call.ret = FOne /\ call.divisions = 0)
        /\ call.x # FOne => call.ret = FZero

\* eval_l_1 has returned 0 at a point other than 1 of the subgroup of order 4
C11_Witness ==
    /\ call.fn = "eval_l_1"
    /\ call.n = 4
    /\ InSubgroup(4, call.x)
    /\ call.x # FOne
    /\ call.ret = FZero
    /\ call.divisions = 1

\* n_log and rate_bits of the instance built
PolyNLog == log2_strict(to_usize(zero_poly.n))
PolyRateBits == log2_strict(zero_poly.rate)

\* the coset point g * w^i of index i of the instance built
PointOf(i) == coset_point(PolyNLog, PolyRateBits, i)

\* C12: for the instance built by new(n_log, rate_bits) and every index i in
\* 0..rate * n, eval(i) is (g * w^i)^n - 1, which is eval_zero_poly(n, g * w^i),
\* and eval(i) = eval(i mod rate)
C12_EvalIsVanishingValue ==
    call.fn = "eval" =>
        /\ call.ret = FSub(exp_power_of_2(PointOf(call.i), PolyNLog), FOne)
        /\ call.ret = eval_zero_poly(Pow2(PolyNLog), PointOf(call.i))
        /\ call.ret = ZeroPolyOnCoset_eval(zero_poly, call.i % zero_poly.rate)

\* eval was called at an index past the rate stored entries, of an instance
\* with n = 4 and rate = 4
C12_Witness ==
    /\ call.fn = "eval"
    /\ zero_poly.rate = 4
    /\ to_usize(zero_poly.n) = 4
    /\ call.i = 4 * 4 - 1
    /\ call.ret = eval_zero_poly(4, PointOf(call.i))

\* C13: new never inverts zero, every eval(i) is nonzero, and
\* eval(i) * eval_inverse(i) = 1
C13_EvalTimesInverseIsOne ==
    /\ call.fn = "new" => ~call.panicked
    /\ call.fn = "eval" => call.ret # FZero
    /\ call.fn = "eval_inverse" =>
          FMul(ZeroPolyOnCoset_eval(zero_poly, call.i), call.ret) = FOne

\* eval_inverse was called at an index past the rate stored entries and
\* returned the inverse of eval at that index
C13_Witness ==
    /\ call.fn = "eval_inverse"
    /\ zero_poly.rate = 4
    /\ call.i >= 4
    /\ call.i % 4 = 3
    /\ ZeroPolyOnCoset_eval(zero_poly, call.i) # FZero
    /\ FMul(ZeroPolyOnCoset_eval(zero_poly, call.i), call.ret) = FOne

\* C14: eval_l1(i, x) at x the coset point of index i returns
\* Z_H(x) / (n * (x - 1)), the value of eval_l_1(n, x), and x - 1 is nonzero
C14_EvalL1AgreesWithScalar ==
    call.fn = "eval_l1" =>
        /\ call.x = PointOf(call.i)
        /\ FSub(call.x, FOne) # FZero
        /\ call.ret # InvertedZero
        /\ call.ret = eval_l_1(Pow2(PolyNLog), call.x)
        /\ FMul(call.ret, FMul(zero_poly.n, FSub(call.x, FOne)))
              = eval_zero_poly(Pow2(PolyNLog), call.x)

\* eval_l1 was called at an index past the rate stored entries and returned
\* a nonzero value
C14_Witness ==
    /\ call.fn = "eval_l1"
    /\ zero_poly.rate = 2
    /\ to_usize(zero_poly.n) = 4
    /\ call.i = 5
    /\ call.ret # InvertedZero
    /\ call.ret # FZero
    /\ call.ret = eval_l_1(4, call.x)

-----------------------------------------------------------------------------
(* Properties of the generators and of the wire layout *)

\* the wires the generator of op i is to write: the two outputs and the limbs
OutputWires(i) ==
    {5 * i + 3, 5 * i + 4}
        \cup {5 * gate.num_ops + num_limbs(gate) * i + j : j \in 0..(num_limbs(gate) - 1)}

\* the wires the generator of op i is to read
InputWires(i) == {5 * i, 5 * i + 1, 5 * i + 2}

\* the wires of the out_buffer of the generator of op i on the row
WriteSet(i) ==
    LET out_buffer == run_once(gate, i, witness)
    IN  {out_buffer[k][1] : k \in 1..Len(out_buffer)}

\* the row with every wire but the dependencies of op i unset
OnlyInputsOf(i) ==
    [w \in DOMAIN witness |-> IF w \in InputWires(i) THEN witness[w] ELSE Unset]

\* C15: in every order of running the generators of a row, each generator
\* reads only its three dependencies 5i, 5i+1, 5i+2, writes each of its output
\* wires 5i+3, 5i+4 and its limb wires exactly once, never writes an input
\* wire, and the write sets of distinct generators (which are their output
\* wires) are disjoint
C15_GeneratorsIndependent ==
    gate # NoGate =>
        /\ ~panicked
        /\ \A i \in Ops(gate) :
              /\ {dependencies(gate, i)[k] : k \in 1..3} = InputWires(i)
              /\ run_once(gate, i, OnlyInputsOf(i)) = run_once(gate, i, witness)
              /\ WriteSet(i) = OutputWires(i)
              /\ \A w \in InputWires(i) : written[w] = 0
              /\ \A w \in OutputWires(i) : written[w] = IF i \in ran THEN 1 ELSE 0
              /\ \A j \in Ops(gate) :
                    /\ OutputWires(i) \cap InputWires(j) = {}
                    /\ i # j => OutputWires(i) \cap OutputWires(j) = {}

\* the generators of a row of two subtractions have run, op 1 before op 0
\* was possible, and every output wire was written once
C15_Witness ==
    /\ gate.kind = "subtraction"
    /\ gate.num_ops = 2
    /\ gate.BITS = 30
    /\ ran = {1}
    /\ ~panicked
    /\ \A w \in OutputWires(1) : written[w] = 1
    /\ \A w \in OutputWires(0) : written[w] = 0
    /\ witness[5 * 1 + 3] # Unset

\* an accessor of the gate was called
AccessorCalled == gate # NoGate /\ call.fn \in AccessorNames(gate.kind)

\* the arguments of the call are in range
CallInRange == call.i < gate.num_ops /\ call.j < num_limbs(gate)

\* the column of the role the call names
CallColumn ==
    CASE call.fn \in {"wire_ith_multiplicand_0", "wire_ith_input_x"} -> 5 * call.i
      [] call.fn \in {"wire_ith_multiplicand_1", "wire_ith_input_y"} -> 5 * call.i + 1
      [] call.fn \in {"wire_ith_addend", "wire_ith_input_borrow"} -> 5 * call.i + 2
      [] call.fn \in {"wire_ith_output_low_half", "wire_ith_output_result"} ->
            5 * call.i + 3
      [] call.fn \in {"wire_ith_output_high_half", "wire_ith_output_borrow"} ->
            5 * call.i + 4
      [] OTHER -> 5 * gate.num_ops + num_limbs(gate) * call.i + call.j

\* C16 as stated: every accessor fails its assertion, instead of returning an
\* index, whenever i >= num_ops or j >= num_limbs, and no assertion fails for
\* arguments in range
C16_OutOfRangeAlwaysFails ==
    AccessorCalled => (call.ret = PANIC <=> ~CallInRange)

\* C16: in a build with debug assertions every accessor fails its assertion
\* whenever i >= num_ops or j >= num_limbs; in a build without them it returns
\* the unchecked index 5i+k or 5*num_ops + num_limbs*i + j; for arguments in
\* range no assertion fails in either build
C16_OutOfRangeFailsInDebugBuilds ==
    AccessorCalled =>
        /\ CallInRange => call.ret = CallColumn
        /\ (~CallInRange /\ gate.debug_assertions) => call.ret = PANIC
        /\ (~CallInRange /\ ~gate.debug_assertions) => call.ret = CallColumn

\* in a build without debug assertions the limb accessor was called with the
\* limb index num_limbs and returned an index: the column of limb 0 of the
\* next op
C16_Witness ==
    /\ AccessorCalled
    /\ ~gate.debug_assertions
    /\ gate.num_ops = 2
    /\ call.fn = "wire_ith_output_jth_limb"
    /\ call.i = 0
    /\ call.j = num_limbs(gate)
    /\ call.ret # PANIC
    /\ call.ret = wire_accessor(gate, "wire_ith_output_jth_limb", 1, 0)

\* the canonical representative of x - y - borrow_in of op i
ResultInitialU64(i) ==
    to_canonical_u64(Sub_result_initial(InputsOf(i)[1], InputsOf(i)[2], InputsOf(i)[3]))

\* the integer x - y - borrow_in of op i is negative
DifferenceNegative(i) ==
    Lt64(InputsOf(i)[1], Low64(Add64(InputsOf(i)[2], InputsOf(i)[3])))

\* C17: for x, y < 2^BITS and borrow_in in {0, 1}, the canonical
\* representative of x - y - borrow_in in run_once of the subtraction gate is
\* never 2^BITS: it is below 2^BITS when the integer difference is
\* non-negative and above when it is negative, so the strict test of the
\* code and the non-strict test give the same borrow_out
C17_BorrowTestNeverAtBoundary ==
    (gate # NoGate /\ gate.kind = "subtraction" /\ InputsInRange) =>
        \A i \in Ops(gate) :
            /\ ResultInitialU64(i) # PowBITS
            /\ ~DifferenceNegative(i) => Lt64(ResultInitialU64(i), PowBITS)
            /\ DifferenceNegative(i) => Lt64(PowBITS, ResultInitialU64(i))
            /\ Lt64(PowBITS, ResultInitialU64(i)) <=> ~Lt64(ResultInitialU64(i), PowBITS)
            /\ i \in ran =>
                  (witness[Sub_wire_ith_output_borrow(gate, i)] = FOne
                      <=> ~Lt64(ResultInitialU64(i), PowBITS))

\* the generator of op 0 has run on x = 0, y = 2^BITS - 1, borrow_in = 1: the
\* difference is -2^BITS and the borrow was set
C17_Witness ==
    /\ gate.kind = "subtraction"
    /\ gate.BITS = 32
    /\ 0 \in ran
    /\ InputsOf(0)[1] = FZero
    /\ IntEq(WideAdd(InputsOf(0)[2], One64), PowBITS)
    /\ InputsOf(0)[3] = FOne
    /\ DifferenceNegative(0)
    /\ witness[Sub_wire_ith_output_borrow(gate, 0)] = FOne
    /\ witness[Sub_wire_ith_output_result(gate, 0)] = FZero

\* the row the generators produce from the inputs on the row when run in
\* the order of the ops
FinalWitness ==
    GeneratedRow(gate, InputRow(gate, [i \in Ops(gate) |-> InputsOf(i)]), 0)

\* the generator of op i has its dependencies resolved
Resolved(i) ==
    \A k \in 1..3 : get_wire(witness, dependencies(gate, i)[k]) # Unset

\* what holds at every point of every schedule of a row: nothing has
\* panicked and every generator has its dependencies resolved, which is all
\* that a generator not yet run waits for, so the schedule goes on until
\* every generator has run
ScheduleSafe ==
    /\ ~panicked
    /\ \A i \in Ops(gate) : Resolved(i)
    /\ \A j \in Ops(gate) :
          WriteSet(j) \cap {dependencies(gate, i)[k] : i \in Ops(gate), k \in 1..3} = {}
    /\ ran = Ops(gate) =>
          /\ DOMAIN witness = 0..(num_wires(gate) - 1)
          /\ RowAssigned
          /\ witness = FinalWitness

\* C18: from a row with the three inputs of every op assigned, every
\* schedule that runs each generator once, in any order, ends in the same
\* final witness with all num_wires() wires assigned; no generator depends on
\* a wire another generator writes, so none is ever blocked
C18_SchedulesConverge == gate # NoGate => ScheduleSafe

\* both generators of a row of two multiply-adds have run and the row is
\* assigned in full
C18_Witness ==
    /\ gate.kind = "arithmetic"
    /\ gate.num_ops = 2
    /\ gate.BITS = 16
    /\ ran = {0, 1}
    /\ RowAssigned
    /\ witness = FinalWitness
    /\ witness[1] # witness[6]

\* the roles of the wires of the gate: <<accessor, op, limb>>, the limb being
\* 0 for the five roles of an op
Roles ==
    {<<name, i, 0>> :
        name \in AccessorNames(gate.kind) \ {"wire_ith_output_jth_limb"},
        i \in Ops(gate)}
    \cup {<<"wire_ith_output_jth_limb", i, j>> :
             i \in Ops(gate), j \in 0..(num_limbs(gate) - 1)}

\* the column the accessors give the role
ColumnOf(role) == wire_accessor(gate, role[1], role[2], role[3])

\* the number k of a role among the five roles of an op
RoleNumber(name) ==
    CASE name \in {"wire_ith_multiplicand_0", "wire_ith_input_x"} -> 0
      [] name \in {"wire_ith_multiplicand_1", "wire_ith_input_y"} -> 1
      [] name \in {"wire_ith_addend", "wire_ith_input_borrow"} -> 2
      [] name \in {"wire_ith_output_low_half", "wire_ith_output_result"} -> 3
      [] name \in {"wire_ith_output_high_half", "wire_ith_output_borrow"} -> 4

\* C19: for both gates and every num_ops the accessors are a bijection
\* between the roles (op i, role k < 5) and (op i, limb j < num_limbs) and
\* the columns 0..num_wires(): role k of op i is column 5i+k, below
\* 5*num_ops, limb j of op i is column 5*num_ops + num_limbs*i + j, from
\* 5*num_ops up, and no two roles share a column
C19_AccessorsAreBijection ==
    gate # NoGate =>
        /\ \A role \in Roles :
              IF role[1] = "wire_ith_output_jth_limb"
              THEN /\ ColumnOf(role)
                        = 5 * gate.num_ops + num_limbs(gate) * role[2] + role[3]
                   /\ ColumnOf(role) >= 5 * gate.num_ops
                   /\ ColumnOf(role) < num_wires(gate)
              ELSE /\ ColumnOf(role) = 5 * role[2] + RoleNumber(role[1])
                   /\ ColumnOf(role) >= 0
                   /\ ColumnOf(role) < 5 * gate.num_ops
        /\ Cardinality({ColumnOf(role) : role \in Roles}) = Cardinality(Roles)
        /\ {ColumnOf(role) : role \in Roles} = 0..(num_wires(gate) - 1)
        /\ (AccessorCalled /\ CallInRange) =>
              /\ <<call.fn, call.i, call.j>> \in Roles
              /\ call.ret = ColumnOf(<<call.fn, call.i, call.j>>)

\* the accessor of the last limb of the last op of a row of two subtractions
\* on 32 bits returned the last column of the row
C19_Witness ==
    /\ AccessorCalled
    /\ gate.kind = "subtraction"
    /\ gate.BITS = 32
    /\ gate.num_ops = 2
    /\ call.fn = "wire_ith_output_jth_limb"
    /\ call.i = 1
    /\ call.j = num_limbs(gate) - 1
    /\ call.ret = num_wires(gate) - 1
    /\ Cardinality(Roles) = 2 * (5 + 16)

-----------------------------------------------------------------------------
(* Properties of the reductions by powers *)

\* the sum of terms[i] * alpha^i over the terms from the one of index k
\* (counted from 1, the first term having the power 0)
RECURSIVE PowerSum(_, _, _)
PowerSum(terms, alpha, k) ==
    IF k > Len(terms) THEN FZero
    ELSE FAdd(FMul(terms[k], exp_u64(alpha, U64(k - 1))),
              PowerSum(terms, alpha, k + 1))

\* C20: reduce_with_powers(terms, alpha) is the sum of terms[i] * alpha^i,
\* zero for no terms; reduce_with_powers_multi(terms, alphas) has the length
\* of alphas and its k-th entry is reduce_with_powers(terms, alphas[k])
C20_ReduceIsPowerSum ==
    /\ call.fn = "reduce_with_powers" =>
          /\ call.ret = PowerSum(call.terms, call.alpha, 1)
          /\ Len(call.terms) = 0 => call.ret = FZero
    /\ call.fn = "reduce_with_powers_multi" =>
          /\ Len(call.ret) = Len(call.alphas)
          /\ \A k \in 1..Len(call.alphas) :
                /\ call.ret[k] = reduce_with_powers(call.terms, call.alphas[k])
                /\ call.ret[k] = PowerSum(call.terms, call.alphas[k], 1)

\* reduce_with_powers_multi has reduced three terms, the first and the last
\* different, by two different alphas, neither 0 nor 1
C20_Witness ==
    /\ call.fn = "reduce_with_powers_multi"
    /\ Len(call.terms) = 3
    /\ call.terms[1] = Sub64(ORDER, One64)
    /\ call.terms[3] = POWER_OF_TWO_GENERATOR
    /\ Len(call.alphas) = 2
    /\ call.alphas[1] = POWER_OF_TWO_GENERATOR
    /\ call.alphas[2] = Sub64(ORDER, One64)
    /\ call.ret[1] # call.ret[2]
    /\ call.ret[1] = PowerSum(call.terms, call.alphas[1], 1)

-----------------------------------------------------------------------------
(* Soundness of eval_unfiltered_base: rows whose inputs are in range and   *)
(* whose output and limb wires a prover assigns                            *)

\* the low BITS bits of an integer v of up to five words
SplitLow(v, BITS) == And64(Low64(v), Sub64(Shl64(One64, BITS), One64))

\* v >> BITS for an integer v of up to five words, 8 <= BITS
SplitHigh(v, BITS) ==
    Low64(Add64(Shr64(Low64(v), BITS),
                Shl64(U64(IF Len(v) > 4 THEN v[5] ELSE 0), 64 - BITS)))

\* n limbs whose recombination is v: the low n - 1 digits of v and, as the
\* top limb, what is left of v; for v < 2^(width * n) these are the digits
ProverLimbs(v, width, n) ==
    output_limbs(v, Pow2(width), n - 1) \o <<Shr64(v, width * (n - 1))>>

\* what a prover may try on the output wires of an op
Strategies(kind) ==
    IF kind = "arithmetic" THEN {"honest", "wrapped", "carried", "off_by_one"}
    ELSE {"borrow_0", "borrow_1", "borrow_2", "off_by_one"}

\* the pair (output_low, output_high) of a strategy: the halves of the
\* computed output, the halves of the computed output plus ORDER, the
\* halves with 2^BITS moved from the high half to the low one, and the
\* halves with the low one off by one
Arith_prover_outputs(BITS, inputs, strategy) ==
    LET computed_output ==
            to_canonical_u64(FAdd(FMul(inputs[1], inputs[2]), inputs[3]))
        low == SplitLow(computed_output, BITS)
        high == SplitHigh(computed_output, BITS)
        wrapped == Add64(computed_output, ORDER)
    IN  IF strategy = "honest" THEN <<low, high>>
        ELSE IF strategy = "wrapped"
        THEN <<SplitLow(wrapped, BITS), SplitHigh(wrapped, BITS)>>
        ELSE IF strategy = "carried"
        THEN <<FAdd(low, Shl64(One64, BITS)), FSub(high, FOne)>>
        ELSE <<FAdd(low, FOne), high>>

\* the pair (output_result, output_borrow) of a strategy: the result that
\* satisfies the relation for the borrow 0, 1 or 2, and the result for the
\* borrow 0 off by one
Sub_prover_outputs(BITS, inputs, strategy) ==
    LET result_initial == FSub(FSub(inputs[1], inputs[2]), inputs[3])
        base == Shl64(One64, BITS)
    IN  IF strategy = "borrow_0" THEN <<result_initial, FZero>>
        ELSE IF strategy = "borrow_1"
        THEN <<FAdd(result_initial, base), FOne>>
        ELSE IF strategy = "borrow_2"
        THEN <<FAdd(result_initial, FAdd(base, base)), U64(2)>>
        ELSE <<FAdd(result_initial, FOne), FZero>>

\* the wires of op i a prover assigns, with limbs that recombine to the
\* outputs
ProverWrites(g, i, row, strategy) ==
    LET inputs == [k \in 1..3 |-> row[dependencies(g, i)[k]]]
    IN  IF g.kind = "arithmetic"
        THEN LET out == Arith_prover_outputs(g.BITS, inputs, strategy)
                 half == Arith_num_limbs(g.BITS) \div 2
                 limbs == ProverLimbs(out[1], Arith_limb_bits, half)
                            \o ProverLimbs(out[2], Arith_limb_bits, half)
             IN  << <<Arith_wire_ith_output_low_half(g, i), out[1]>>,
                    <<Arith_wire_ith_output_high_half(g, i), out[2]>> >>
                 \o [j \in 1..Len(limbs) |->
                        <<Arith_wire_ith_output_jth_limb(g, i, j - 1), limbs[j]>>]
        ELSE LET out == Sub_prover_outputs(g.BITS, inputs, strategy)
                 limbs == ProverLimbs(out[1], Sub_limb_bits, Sub_num_limbs(g.BITS))
             IN  << <<Sub_wire_ith_output_result(g, i), out[1]>>,
                    <<Sub_wire_ith_output_borrow(g, i), out[2]>> >>
                 \o [j \in 1..Len(limbs) |->
                        <<Sub_wire_ith_output_jth_limb(g, i, j - 1), limbs[j]>>]

\* the row after the prover has assigned the ops i.. of it
RECURSIVE ProverRow(_, _, _, _)
ProverRow(g, row, strategy, i) ==
    IF i >= g.num_ops THEN row
    ELSE ProverRow(g, set_wires(row, ProverWrites(g, i, row, strategy), 1),
                   strategy, i + 1)

\* fully assigned rows with in-range inputs, for every gate of one op,
\* input choice and strategy: the constraints of an op read the wires of
\* that op alone
InitSound ==
    \E g \in {t \in TestedGates : t.num_ops = 1} :
        \E ia \in 1..Len(InRange(g.BITS, 0)),
           ib \in 1..Len(InRange(g.BITS, 0)),
           ic \in ThirdChoices(g),
           strategy \in Strategies(g.kind) :
           Fresh(g, ProverRow(g,
                      InputRow(g, [i \in Ops(g) |-> OpInputs(g, ia, ib, ic, i)]),
                      strategy, 0))

NextSound ==
    \/ MakeVars(0)
    \/ EvalUnfiltered
    \/ EvalUnfilteredBase

SpecSound == InitSound /\ [][NextSound]_vars

\* every constraint eval_unfiltered_base returned for op i is zero
Accepted(i) ==
    LET per_op == 3 + num_limbs(gate)
    IN  \A k \in (i * per_op + 1)..((i + 1) * per_op) :
            constraints_base[k] = FZero

\* C21: for every BITS in {8,16,24,30,32} and every row of
\* BinaryArithmeticGate whose multiplicand_0, multiplicand_1 and addend are
\* below 2^BITS, if all constraints eval_unfiltered_base returns for an op
\* are zero then output_low and output_high are below 2^BITS and
\* output_low + 2^BITS * output_high = multiplicand_0 * multiplicand_1 +
\* addend as integers.
C21_ArithmeticGateSound ==
    (gate.kind = "arithmetic" /\ "eval_unfiltered_base" \in evaluated)
    => \A i \in Ops(gate) : Accepted(i) => ArithmeticOutputExact(i)

\* the outputs on the row of op i are the ones BinarySubtractionGenerator
\* writes for the inputs on the row
SubtractionOutputIsGenerated(i) ==
    LET out_buffer == Sub_run_once(gate, i, witness)
    IN  /\ witness[Sub_wire_ith_output_result(gate, i)] = out_buffer[1][2]
        /\ witness[Sub_wire_ith_output_borrow(gate, i)] = out_buffer[2][2]

\* C22: for every row of BinarySubtractionGate whose x and y are below
\* 2^BITS and whose borrow_in is a bit, if all constraints
\* eval_unfiltered_base returns for an op are zero then output_borrow is a
\* bit, output_result is below 2^BITS, output_result = x - y - borrow_in +
\* 2^BITS * output_borrow as integers, and the pair is the one the generator
\* writes.
C22_SubtractionGateSound ==
    (gate.kind = "subtraction" /\ "eval_unfiltered_base" \in evaluated)
    => \A i \in Ops(gate) :
          Accepted(i)
          => /\ SubtractionOutputExact(i)
             /\ SubtractionOutputIsGenerated(i)

\* BITS = 32 at the difference -2^32: the pair (0, 1) is accepted
C22_Witness ==
    /\ gate.kind = "subtraction"
    /\ gate.BITS = 32
    /\ "eval_unfiltered_base" \in evaluated
    /\ InputsOf(0) = <<Zero64, BelowPow2(32, 0), One64>>
    /\ witness[Sub_wire_ith_output_result(gate, 0)] = Zero64
    /\ witness[Sub_wire_ith_output_borrow(gate, 0)] = One64
    /\ Accepted(0)

====
